---- MODULE Spec2Model ----
(***************************************************************************)
(* Model of the read-side projection of sircles (readdb/readdb.go): the    *)
(* bitemporal graph store, its generic readers and writers, the event      *)
(* applier with its two passes (graph mutation, CircleChangesApplied       *)
(* digest), and the read models computed on top of the graph.              *)
(*                                                                         *)
(* A table is a sequence of rows in insertion order.  A nullable column    *)
(* or a Go pointer is <<>> (NULL / nil) or <<value>>.  A query without     *)
(* ORDER BY may return its rows in any order: the readers take an order    *)
(* "fwd" or "rev" chosen by the environment.                               *)
(***************************************************************************)
EXTENDS Integers, Sequences, FiniteSets, TLC

VARIABLES
  timeline,    \* table timeline: set of [timestamp, groupid]
  vertex,      \* vertex class -> table of [id, start_tl, end_tl, data]
  edge,        \* edge class -> table of [start_tl, end_tl, x, y, data]
  roleevent,   \* table roleevent: [timeline, id, roleid, eventtype, data]
  password,    \* table password: rows (memberid, password), password a hash
  curTl,       \* DBService.curTl, the cached current timeline number
  resolution,  \* timestamp resolution of the store (1: as given, 2: coarser)
  err,         \* outcome of the running transaction: "ok", "error", "panic", "crash"
  last,        \* the event ApplyEvent was last called with
  nevents,     \* the number of events handed to ApplyEvent so far
  pc,          \* position in ApplyEvents: "loop" or "returned"
  snap,        \* timeline number -> what the readers returned there while it was current
  txBegin,     \* the store at the begin of the open transaction, <<>> when none is tracked
  threads      \* the holder of curTlLock and where the writer and a reader thread stand

\* One thread at a time applies events and no reader runs.
NoThreads == [lock |-> "", writer |-> "idle", reader |-> "idle", tl |-> 0, cached |-> 0]

vars ==
  <<timeline, vertex, edge, roleevent, password, curTl, resolution, err, last, nevents, pc, snap,
    txBegin, threads>>

(***************************************************************************)
(* Bounds of the model.                                                    *)
(***************************************************************************)
MaxEvents == 4
\* Length of the streams applied to an organization already set up.
MaxSteps == 3
\* Timestamps are sparse: consecutive groups of a log in time order lie Gap apart.
Gap == 2
\* The largest timestamp of a log whose groups arrive in any order.
MaxStamp == 4
\* A move rewrites every live row below the role: moves stop on a large table.
MaxRows == 6

\* Identifiers are handed out in this order (the ids of a stream are fresh).
RoleSeq == <<"r1", "r2", "r3">>
RoleIDs == {RoleSeq[i] : i \in 1..Len(RoleSeq)}
MemberIDs == {"m1"}

(***************************************************************************)
(* Graph schema.                                                           *)
(***************************************************************************)
VertexClasses ==
  {"role", "domain", "accountability", "roleadditionalcontent", "member", "memberavatar", "tension"}

EdgeClassNames ==
  {"rolerole", "roledomain", "roleaccountability", "rolemember", "circledirectmember",
   "membertension", "roletension"}

edgeClassX(ec) ==
  CASE ec = "rolerole" -> "role"
    [] ec = "roledomain" -> "domain"
    [] ec = "roleaccountability" -> "accountability"
    [] ec = "rolemember" -> "member"
    [] ec = "circledirectmember" -> "member"
    [] ec = "membertension" -> "tension"
    [] ec = "roletension" -> "tension"

edgeClassY(ec) ==
  CASE ec = "rolerole" -> "role"
    [] ec = "roledomain" -> "role"
    [] ec = "roleaccountability" -> "role"
    [] ec = "rolemember" -> "role"
    [] ec = "circledirectmember" -> "role"
    [] ec = "membertension" -> "member"
    [] ec = "roletension" -> "role"

IsCoreRoleType(rt) == rt \in {"leadlink", "replink", "secretary", "facilitator"}

(***************************************************************************)
(* Sequence helpers.                                                       *)
(***************************************************************************)
Rev(s) == [i \in 1..Len(s) |-> s[Len(s) + 1 - i]]

Ordered(s, ord) == IF ord = "rev" THEN Rev(s) ELSE s

RECURSIVE Concat(_)
Concat(ss) == IF ss = <<>> THEN <<>> ELSE Head(ss) \o Concat(Tail(ss))

Range(s) == {s[i] : i \in 1..Len(s)}

Max(S) == CHOOSE x \in S : \A y \in S : y <= x

(***************************************************************************)
(* The store and the service as one value, threaded through the handlers. *)
(***************************************************************************)
Fail(st, kind) == IF st.err = "ok" THEN [st EXCEPT !.err = kind] ELSE st

\* timeLineCond: the fast path when tl is the cached current timeline.
timeLineCond(st, r, tl) ==
  IF tl = st.curTl
    THEN r.end_tl = <<>>
    ELSE r.start_tl <= tl /\ (r.end_tl = <<>> \/ r.end_tl[1] >= tl)

\* lastTimeLineCond: the rows a close at tl touches.
lastTimeLineCond(st, r, tl) ==
  IF tl = st.curTl
    THEN r.end_tl = <<>>
    ELSE r.end_tl = <<>> /\ r.start_tl <= tl

(***************************************************************************)
(* Readers.  They abort on tl <= 0; the callers below test BadTl first.    *)
(***************************************************************************)
\* A reader that takes every tl.
AnyTl(tl) == FALSE

BadTl(tl) == tl <= 0

\* vertices with the condition "id in ids".
vertices(st, tl, vc, ids, ord) ==
  Ordered(SelectSeq(st.vertex[vc], LAMBDA r : timeLineCond(st, r, tl) /\ r.id \in ids), ord)

\* vertices without a condition.
verticesAll(st, tl, vc, ord) ==
  Ordered(SelectSeq(st.vertex[vc], LAMBDA r : timeLineCond(st, r, tl)), ord)

startEdgePoint(e, direction) == IF direction = "out" THEN e.x ELSE e.y
endEdgePoint(e, direction) == IF direction = "out" THEN e.y ELSE e.x

\* The join of connectedVertices: one element per (edge row, vertex row), both
\* live at tl, carrying the group (the source id), the vertex and the edge.
connectedVertices(st, tl, vertexID, ec, direction, ord) ==
  LET vc == IF direction = "out" THEN edgeClassY(ec) ELSE edgeClassX(ec)
      es == SelectSeq(st.edge[ec],
              LAMBDA e : startEdgePoint(e, direction) \in vertexID /\ timeLineCond(st, e, tl))
      vs == SelectSeq(st.vertex[vc], LAMBDA v : timeLineCond(st, v, tl))
      rowsFor(e) ==
        LET m == SelectSeq(vs, LAMBDA v : v.id = endEdgePoint(e, direction))
        IN [i \in 1..Len(m) |-> [group |-> startEdgePoint(e, direction), v |-> m[i], e |-> e]]
  IN Ordered(Concat([i \in 1..Len(es) |-> rowsFor(es[i])]), ord)

\* The scan...Groups functions: group id -> the rows of that group, in order.
Groups(res) == {res[i].group : i \in 1..Len(res)}
GroupRows(res, g) == SelectSeq(res, LAMBDA r : r.group = g)
scanGroups(res) == [g \in Groups(res) |-> GroupRows(res, g)]

\* map[g] = v[0] of each group, as RoleParentInternal and its kin build it.
firstOfGroups(res) == [g \in Groups(res) |-> GroupRows(res, g)[1].v]

\* A Go map lookup that yields nil for a missing key.
Lookup(m, k) == IF k \in DOMAIN m THEN <<m[k]>> ELSE <<>>

(***************************************************************************)
(* Writers.                                                                *)
(***************************************************************************)
insertVertex(st, tl, vc, id, data) ==
  [st EXCEPT !.vertex[vc] =
     Append(@, [id |-> id, start_tl |-> tl, end_tl |-> <<>>, data |-> data])]

\* A store without versions: the rows a close touches are dropped.
dropVertex(st, endtl, vc, id) ==
  [st EXCEPT !.vertex[vc] =
     SelectSeq(@, LAMBDA r : ~(r.id = id /\ lastTimeLineCond(st, r, endtl)))]

closeVertex(st, endtl, vc, id) ==
  LET t == st.vertex[vc]
  IN [st EXCEPT !.vertex[vc] =
        [i \in 1..Len(t) |->
           IF t[i].id = id /\ lastTimeLineCond(st, t[i], endtl)
             THEN [t[i] EXCEPT !.end_tl = <<endtl>>]
             ELSE t[i]]]

newVertex(st, tl, id, vc, data) == insertVertex(st, tl, vc, id, data)

\* updateVertex that closes the old version at tl, not at tl - 1.
updateVertexClosedAtTl(st, tl, vc, id, data) ==
  insertVertex(closeVertex(st, tl, vc, id), tl, vc, id, data)

updateVertex(st, tl, vc, id, data) ==
  insertVertex(closeVertex(st, tl - 1, vc, id), tl, vc, id, data)

deleteVertex(st, tl, vc, id) == closeVertex(st, tl - 1, vc, id)

closeEdge(st, endtl, ec, x, y) ==
  LET t == st.edge[ec]
  IN [st EXCEPT !.edge[ec] =
        [i \in 1..Len(t) |->
           IF t[i].x = x /\ t[i].y = y /\ lastTimeLineCond(st, t[i], endtl)
             THEN [t[i] EXCEPT !.end_tl = <<endtl>>]
             ELSE t[i]]]

deleteEdge(st, tl, ec, x, y) == closeEdge(st, tl - 1, ec, x, y)

addEdge(st, tl, ec, x, y, values) ==
  [st EXCEPT !.edge[ec] =
     Append(@, [start_tl |-> tl, end_tl |-> <<>>, x |-> x, y |-> y, data |-> values])]

\* The columns of a rolemember edge; the other edge classes carry none.
NoValues == <<>>
roleMemberValues(focus, noCoreMember, electionExpiration) ==
  [focus |-> focus, nocoremember |-> noCoreMember, electionexpiration |-> electionExpiration]

(***************************************************************************)
(* Timeline.                                                               *)
(***************************************************************************)
\* The store keeps a timestamp at its own resolution.
StoredTimestamp(st, ts) == (ts \div st.resolution) * st.resolution

TimeLineForGroupID(st, groupID) ==
  LET rows == {r \in st.timeline : r.groupid = groupID}
  IN IF rows = {} THEN <<>> ELSE <<(CHOOSE r \in rows : TRUE).timestamp>>

\* The oldest timeline instead of the newest.
oldestTimeLineFromDB(st) ==
  IF st.timeline = {} THEN 0
  ELSE CHOOSE x \in {r.timestamp : r \in st.timeline} :
         \A y \in {r.timestamp : r \in st.timeline} : x <= y

curTimeLineFromDB(st) ==
  IF st.timeline = {} THEN 0 ELSE Max({r.timestamp : r \in st.timeline})

(***************************************************************************)
(* Named queries used by the applier.                                      *)
(***************************************************************************)
\* RoleInternal: roles[0] or nil.
RoleInternal(st, tl, id, ord) ==
  LET roles == vertices(st, tl, "role", {id}, ord)
  IN IF Len(roles) < 1 THEN <<>> ELSE <<roles[1]>>

RoleParentInternal(st, tl, rolesIDs, ord) ==
  firstOfGroups(connectedVertices(st, tl, rolesIDs, "rolerole", "in", ord))

ChildRolesInternal(st, tl, rolesIDs, ord) ==
  LET g == scanGroups(connectedVertices(st, tl, rolesIDs, "rolerole", "out", ord))
  IN [k \in DOMAIN g |-> [i \in 1..Len(g[k]) |-> g[k][i].v]]

RoleEventsByTypeInternal(st, roleID, tl, eventType) ==
  SelectSeq(st.roleevent,
    LAMBDA e : e.roleid = roleID /\ e.timeline = tl /\ e.eventtype = eventType)

\* insertRoleEvent: delete the row with this id, then insert.
insertRoleEvent(st, roleEvent) ==
  [st EXCEPT !.roleevent =
     Append(SelectSeq(@, LAMBDA e : e.id # roleEvent.id), roleEvent)]

NewRoleEventCircleChangesApplied(tl, id, roleID, issuerID) ==
  [timeline |-> tl, id |-> id, roleid |-> roleID, eventtype |-> "CircleChangesApplied",
   data |-> [changedRoles |-> <<>>, rolesToCircle |-> <<>>, rolesFromCircle |-> <<>>,
             issuerID |-> issuerID]]

(***************************************************************************)
(* Events.  Every event carries every field; a handler reads its own.      *)
(***************************************************************************)
NoEvent ==
  [id |-> 0, groupID |-> <<>>, timestamp |-> 0, type |-> "",
   roleID |-> "", parentRoleID |-> <<>>, prevRoleID |-> <<>>, roleType |-> "",
   memberID |-> "", aggregateID |-> "", vertexID |-> "",
   noCoreMember |-> FALSE, isAdmin |-> FALSE, text |-> "", email |-> "",
   commandType |-> ""]

RoleData(roleType, depth, name) == [roletype |-> roleType, depth |-> depth, name |-> name]

(***************************************************************************)
(* changeRoleParent and updateChildsDepth.                                 *)
(***************************************************************************)
ChildIDs(st, tl, ids) ==
  LET res == connectedVertices(st, tl, ids, "rolerole", "out", "fwd")
  IN {res[i].v.id : i \in 1..Len(res)}

RECURSIVE Descendants(_, _, _, _)
Descendants(st, tl, ids, n) ==
  IF n = 0 THEN ids
  ELSE Descendants(st, tl, ids \cup ChildIDs(st, tl, ids), n - 1)

\* The walk of updateChildsDepth from roleID never ends iff it meets a role that
\* is its own descendant.
WalkCycles(st, tl, roleID) ==
  LET n == Cardinality(RoleIDs)
      reach == Descendants(st, tl, {roleID}, n)
  IN \E r \in reach : r \in Descendants(st, tl, ChildIDs(st, tl, {r}), n)

RECURSIVE updateChildsDepth(_, _, _, _, _)
RECURSIVE updateChildsLoop(_, _, _, _, _)
updateChildsDepth(st, tl, pdepth, roleID, ord) ==
  LET groups == ChildRolesInternal(st, tl, {roleID}, ord)
      childs == IF roleID \in DOMAIN groups THEN groups[roleID] ELSE <<>>
  IN updateChildsLoop(st, tl, pdepth + 1, childs, ord)

updateChildsLoop(st, tl, depth, childs, ord) ==
  IF childs = <<>> THEN st
  ELSE LET child == Head(childs)
           s1 == updateVertex(st, tl, "role", child.id, [child.data EXCEPT !.depth = depth])
           s2 == updateChildsDepth(s1, tl, depth, child.id, ord)
       IN updateChildsLoop(s2, tl, depth, Tail(childs), ord)

\* changeRoleParent, in the order of the code: the edges, the role's own
\* depth, the depths below it.
changeRoleParentChilds(st, nextTl, roleID, depth, ord) ==
  \* updateChildsDepth never returns on a cycle
  IF WalkCycles(st, nextTl, roleID) THEN Fail(st, "crash")
  ELSE updateChildsDepth(st, nextTl, depth, roleID, ord)

changeRoleParentUpdate(st, nextTl, role, depth, ord) ==
  changeRoleParentChilds(updateVertex(st, nextTl, "role", role.id, [role.data EXCEPT !.depth = depth]),
                nextTl, role.id, depth, ord)

changeRoleParentDepth(st, nextTl, role, newParentID, newParent, ord) ==
  IF role = <<>> THEN Fail(st, "error")
  \* newParent.Depth is read without a nil check
  ELSE IF newParentID # <<>> /\ newParent = <<>> THEN Fail(st, "panic")
  ELSE changeRoleParentUpdate(st, nextTl, role[1],
                   IF newParentID # <<>> THEN newParent[1].data.depth + 1 ELSE 0, ord)

changeRoleParentEdges(st, nextTl, roleID, curParent, newParentID) ==
  IF newParentID # <<>>
    THEN addEdge(IF curParent # <<>>
                   THEN deleteEdge(st, nextTl, "rolerole", curParent[1].id, roleID)
                   ELSE st,
                 nextTl, "rolerole", newParentID[1], roleID, NoValues)
    ELSE IF curParent # <<>>
      THEN deleteEdge(st, nextTl, "rolerole", curParent[1].id, roleID)
      ELSE st

changeRoleParentRead(st, nextTl, roleID, newParentID, ord) ==
  changeRoleParentDepth(st, nextTl, RoleInternal(st, nextTl, roleID, ord), newParentID,
               IF newParentID # <<>> THEN RoleInternal(st, nextTl, newParentID[1], ord) ELSE <<>>,
               ord)

changeRoleParent(st, nextTl, roleID, newParentID, ord) ==
  IF BadTl(nextTl - 1) THEN Fail(st, "panic")
  ELSE changeRoleParentRead(
         changeRoleParentEdges(st, nextTl, roleID,
                     Lookup(RoleParentInternal(st, nextTl - 1, {roleID}, ord), roleID),
                     newParentID),
         nextTl, roleID, newParentID, ord)

(***************************************************************************)
(* ApplyEvent, first pass: the graph mutations.                            *)
(***************************************************************************)
MutRoleCreated(st, tl, ev, ord) ==
  LET prole == IF ev.parentRoleID # <<>>
                 THEN RoleInternal(st, tl, ev.parentRoleID[1], ord)
                 ELSE <<>>
  IN IF ev.parentRoleID # <<>> /\ prole = <<>> THEN Fail(st, "error")
     ELSE
       LET depth == IF ev.parentRoleID # <<>> THEN prole[1].data.depth + 1 ELSE 0
           s1 == newVertex(st, tl, ev.roleID, "role", RoleData(ev.roleType, depth, ev.text))
       IN IF ev.parentRoleID # <<>>
            THEN addEdge(s1, tl, "rolerole", ev.parentRoleID[1], ev.roleID, NoValues)
            ELSE s1

MutRoleDeleted(st, tl, ev, ord) ==
  LET prole == Lookup(RoleParentInternal(st, tl, {ev.roleID}, ord), ev.roleID)
      s1 == deleteVertex(st, tl, "role", ev.roleID)
  IN IF prole # <<>>
       THEN deleteEdge(s1, tl, "rolerole", prole[1].id, ev.roleID)
       ELSE s1

MutRoleUpdated(st, tl, ev, ord) ==
  LET crole == RoleInternal(st, tl, ev.roleID, ord)
  IN IF crole = <<>> THEN Fail(st, "error")
     ELSE updateVertex(st, tl, "role", ev.roleID,
                       RoleData(ev.roleType, crole[1].data.depth, ev.text))

\* RoleDomain* and RoleAccountability* events: vc and ec name the classes.
MutPropertyCreated(st, tl, ev, vc, ec) ==
  addEdge(newVertex(st, tl, ev.vertexID, vc, [description |-> ev.text]),
          tl, ec, ev.vertexID, ev.roleID, NoValues)

MutPropertyUpdated(st, tl, ev, vc) ==
  updateVertex(st, tl, vc, ev.vertexID, [description |-> ev.text])

MutPropertyDeleted(st, tl, ev, vc, ec) ==
  deleteEdge(deleteVertex(st, tl, vc, ev.vertexID), tl, ec, ev.vertexID, ev.roleID)

roleAddMember(st, tl, roleID, memberID, focus, noCoreMember) ==
  addEdge(st, tl, "rolemember", memberID, roleID, roleMemberValues(focus, noCoreMember, <<>>))

roleUpdateMember(st, tl, roleID, memberID, focus, noCoreMember) ==
  addEdge(deleteEdge(st, tl, "rolemember", memberID, roleID),
          tl, "rolemember", memberID, roleID, roleMemberValues(focus, noCoreMember, <<>>))

roleRemoveMember(st, tl, roleID, memberID) ==
  deleteEdge(st, tl, "rolemember", memberID, roleID)

circleRemoveDirectMember(st, tl, roleID, memberID) ==
  deleteEdge(st, tl, "circledirectmember", memberID, roleID)

TensionData(title, closed, closeReason) ==
  [title |-> title, closed |-> closed, closereason |-> closeReason]

MutTensionCreated(st, tl, ev) ==
  LET s1 == newVertex(st, tl, ev.aggregateID, "tension", TensionData(ev.text, FALSE, ""))
      s2 == addEdge(s1, tl, "membertension", ev.aggregateID, ev.memberID, NoValues)
  IN IF ev.parentRoleID # <<>>
       THEN addEdge(s2, tl, "roletension", ev.aggregateID, ev.parentRoleID[1], NoValues)
       ELSE s2

MutTensionUpdated(st, tl, ev) ==
  updateVertex(st, tl, "tension", ev.aggregateID, TensionData(ev.text, FALSE, ""))

MutTensionRoleChanged(st, tl, ev) ==
  LET s1 == IF ev.prevRoleID # <<>>
              THEN deleteEdge(st, tl, "roletension", ev.aggregateID, ev.prevRoleID[1])
              ELSE st
  IN IF ev.parentRoleID # <<>>
       THEN addEdge(s1, tl, "roletension", ev.aggregateID, ev.parentRoleID[1], NoValues)
       ELSE s1

MutTensionClosed(st, tl, ev, ord) ==
  LET tensions == vertices(st, tl, "tension", {ev.aggregateID}, ord)
  IN IF Len(tensions) = 0 THEN Fail(st, "error")
     ELSE updateVertex(st, tl, "tension", ev.aggregateID,
                       [tensions[1].data EXCEPT !.closed = TRUE, !.closereason = ev.text])

MemberData(ev) == [isadmin |-> ev.isAdmin, username |-> ev.text, email |-> ev.email]

\* MemberPasswordSet that inserts the row and deletes none.
MutMemberPasswordSetInsert(st, ev) ==
  [st EXCEPT !.password = Append(@, [memberid |-> ev.aggregateID, password |-> ev.text])]

\* "delete from password where memberid = $1", then the insert.
MutMemberPasswordSet(st, ev) ==
  [st EXCEPT !.password =
     Append(SelectSeq(@, LAMBDA r : r.memberid # ev.aggregateID),
            [memberid |-> ev.aggregateID, password |-> ev.text])]

Mutation(st, tl, ev, ord) ==
  CASE ev.type = "CommandExecuted" -> st
    [] ev.type = "CommandExecutionFinished" -> st
    [] ev.type = "RoleCreated" -> MutRoleCreated(st, tl, ev, ord)
    [] ev.type = "RoleDeleted" -> MutRoleDeleted(st, tl, ev, ord)
    [] ev.type = "RoleUpdated" -> MutRoleUpdated(st, tl, ev, ord)
    [] ev.type = "RoleDomainCreated" -> MutPropertyCreated(st, tl, ev, "domain", "roledomain")
    [] ev.type = "RoleDomainUpdated" -> MutPropertyUpdated(st, tl, ev, "domain")
    [] ev.type = "RoleDomainDeleted" -> MutPropertyDeleted(st, tl, ev, "domain", "roledomain")
    [] ev.type = "RoleAccountabilityCreated" ->
         MutPropertyCreated(st, tl, ev, "accountability", "roleaccountability")
    [] ev.type = "RoleAccountabilityUpdated" -> MutPropertyUpdated(st, tl, ev, "accountability")
    [] ev.type = "RoleAccountabilityDeleted" ->
         MutPropertyDeleted(st, tl, ev, "accountability", "roleaccountability")
    [] ev.type = "RoleAdditionalContentSet" ->
         updateVertex(st, tl, "roleadditionalcontent", ev.roleID, [content |-> ev.text])
    [] ev.type = "RoleChangedParent" -> changeRoleParent(st, tl, ev.roleID, ev.parentRoleID, ord)
    [] ev.type = "RoleMemberAdded" ->
         roleAddMember(st, tl, ev.roleID, ev.memberID, <<>>, ev.noCoreMember)
    [] ev.type = "RoleMemberUpdated" ->
         roleUpdateMember(st, tl, ev.roleID, ev.memberID, <<>>, ev.noCoreMember)
    [] ev.type = "RoleMemberRemoved" -> roleRemoveMember(st, tl, ev.roleID, ev.memberID)
    [] ev.type = "CircleDirectMemberAdded" ->
         addEdge(st, tl, "circledirectmember", ev.memberID, ev.roleID, NoValues)
    [] ev.type = "CircleDirectMemberRemoved" ->
         circleRemoveDirectMember(st, tl, ev.roleID, ev.memberID)
    [] ev.type \in {"CircleLeadLinkMemberSet", "CircleCoreRoleMemberSet"} ->
         addEdge(st, tl, "rolemember", ev.memberID, ev.roleID,
                 roleMemberValues(<<>>, FALSE, <<>>))
    [] ev.type \in {"CircleLeadLinkMemberUnset", "CircleCoreRoleMemberUnset"} ->
         deleteEdge(st, tl, "rolemember", ev.memberID, ev.roleID)
    [] ev.type = "TensionCreated" -> MutTensionCreated(st, tl, ev)
    [] ev.type = "TensionUpdated" -> MutTensionUpdated(st, tl, ev)
    [] ev.type = "TensionRoleChanged" -> MutTensionRoleChanged(st, tl, ev)
    [] ev.type = "TensionClosed" -> MutTensionClosed(st, tl, ev, ord)
    [] ev.type = "MemberCreated" -> newVertex(st, tl, ev.aggregateID, "member", MemberData(ev))
    [] ev.type = "MemberUpdated" -> updateVertex(st, tl, "member", ev.aggregateID, MemberData(ev))
    [] ev.type = "MemberPasswordSet" -> MutMemberPasswordSet(st, ev)
    [] ev.type = "MemberAvatarSet" ->
         updateVertex(st, tl, "memberavatar", ev.aggregateID, [image |-> ev.text])
    [] OTHER -> Fail(st, "panic")

(***************************************************************************)
(* ApplyEvent, second pass: the CircleChangesApplied digests.              *)
(***************************************************************************)
MapPut(m, k, v) == [x \in (DOMAIN m) \cup {k} |-> IF x = k THEN v ELSE m[x]]
MapDel(m, k) == [x \in (DOMAIN m) \ {k} |-> m[x]]

RoleChange(changeType) ==
  [changeType |-> changeType, moved |-> <<>>,
   rolesMovedToParent |-> <<>>, rolesMovedFromParent |-> <<>>]

ChildRoleCommands ==
  {"CircleCreateChildRole", "CircleUpdateChildRole", "CircleDeleteChildRole"}

\* getCircleChangesAppliedRoleEvent: more than one digest aborts.
getCircleChangesAppliedRoleEvent(st, tl, roleID) ==
  LET roleEvents == RoleEventsByTypeInternal(st, roleID, tl, "CircleChangesApplied")
  IN [panic |-> Len(roleEvents) > 1,
      event |-> IF Len(roleEvents) = 0 THEN <<>> ELSE <<roleEvents[1]>>]

DigCommandExecuted(st, tl, ev) ==
  IF ev.commandType \in ChildRoleCommands
    THEN insertRoleEvent(st, NewRoleEventCircleChangesApplied(tl, ev.id, ev.roleID, ev.memberID))
    ELSE st

DigRoleCreated(st, tl, ev, ord) ==
  IF IsCoreRoleType(ev.roleType) \/ ev.parentRoleID = <<>> THEN st
  ELSE
    LET prole == RoleInternal(st, tl, ev.parentRoleID[1], ord) IN
    IF prole = <<>> THEN Fail(st, "error")
    ELSE
      LET got == getCircleChangesAppliedRoleEvent(st, tl, prole[1].id) IN
      \* roleEvent.Data is read without a nil check
      IF got.panic \/ got.event = <<>> THEN Fail(st, "panic")
      ELSE
        LET roleEvent == got.event[1] IN
        IF ev.roleID \in DOMAIN roleEvent.data.changedRoles THEN Fail(st, "panic")
        ELSE insertRoleEvent(st,
               [roleEvent EXCEPT !.data.changedRoles = MapPut(@, ev.roleID, RoleChange("New"))])

DigRoleDeleted(st, tl, ev, ord) ==
  IF BadTl(tl - 1) THEN Fail(st, "panic")
  ELSE
    LET prole == Lookup(RoleParentInternal(st, tl - 1, {ev.roleID}, ord), ev.roleID) IN
    \* prole.ID is read without a nil check
    IF prole = <<>> THEN Fail(st, "panic")
    ELSE
      LET got == getCircleChangesAppliedRoleEvent(st, tl, prole[1].id) IN
      IF got.panic THEN Fail(st, "panic")
      ELSE IF got.event = <<>> THEN st
      ELSE
        LET roleEvent == got.event[1]
            changed == roleEvent.data.changedRoles
            ok == ev.roleID \in DOMAIN changed
            skip == ok /\ changed[ev.roleID].changeType = "New"
            changedRole == IF ok THEN changed[ev.roleID] ELSE RoleChange("Deleted")
        IN insertRoleEvent(st,
             [roleEvent EXCEPT !.data.changedRoles =
                IF skip THEN MapDel(changed, ev.roleID)
                ELSE MapPut(changed, ev.roleID, [changedRole EXCEPT !.changeType = "Deleted"])])

\* DigRoleUpdated that opens a digest of the role itself when it has no parent.
DigRoleUpdatedOwn(st, tl, ev, ord) ==
  IF Lookup(RoleParentInternal(st, tl, {ev.roleID}, ord), ev.roleID) = <<>>
    THEN insertRoleEvent(st, NewRoleEventCircleChangesApplied(tl, ev.id, ev.roleID, ev.memberID))
    ELSE st

DigRoleUpdated(st, tl, ev, ord) ==
  LET prole == Lookup(RoleParentInternal(st, tl, {ev.roleID}, ord), ev.roleID) IN
  IF prole = <<>> THEN st
  ELSE
    LET got == getCircleChangesAppliedRoleEvent(st, tl, prole[1].id) IN
    IF got.panic THEN Fail(st, "panic")
    ELSE IF got.event = <<>> THEN st
    ELSE
      LET roleEvent == got.event[1]
          changed == roleEvent.data.changedRoles
          changedRole == IF ev.roleID \in DOMAIN changed
                           THEN changed[ev.roleID] ELSE RoleChange("Updated")
      IN insertRoleEvent(st,
           [roleEvent EXCEPT !.data.changedRoles = MapPut(changed, ev.roleID, changedRole)])

\* DigMoved with the lists of the two halves exchanged: the affected circle
\* gets "moved from parent" in the new parent's digest and "moved to parent"
\* in the old parent's, and the move lands in the other map.
DigMovedExchanged(st, tl, circle, affected, roleID, prevID, newID, intoCircle) ==
  LET got == getCircleChangesAppliedRoleEvent(st, tl, circle) IN
  IF got.panic THEN Fail(st, "panic")
  ELSE IF got.event = <<>> THEN st
  ELSE
    LET roleEvent == got.event[1]
        d0 == roleEvent.data
        d1 == IF intoCircle
                THEN [d0 EXCEPT !.rolesFromCircle = MapPut(@, roleID, prevID)]
                ELSE [d0 EXCEPT !.rolesToCircle = MapPut(@, roleID, newID)]
        c1 == IF roleID \in DOMAIN d1.changedRoles
                THEN d1.changedRoles[roleID] ELSE RoleChange("Updated")
        m1 == MapPut(d1.changedRoles, roleID, [c1 EXCEPT !.moved = <<prevID, newID>>])
        c2 == IF affected \in DOMAIN m1 THEN m1[affected] ELSE RoleChange("Updated")
        m2 == MapPut(m1, affected,
                IF intoCircle
                  THEN [c2 EXCEPT !.rolesMovedFromParent = Append(@, roleID)]
                  ELSE [c2 EXCEPT !.rolesMovedToParent = Append(@, roleID)])
    IN insertRoleEvent(st, [roleEvent EXCEPT !.data = [d1 EXCEPT !.changedRoles = m2]])

\* One half of the RoleChangedParent digest: the digest of circle, if any, gets
\* the move of roleID; affected is the other circle of the move.
DigMoved(st, tl, circle, affected, roleID, prevID, newID, intoCircle) ==
  LET got == getCircleChangesAppliedRoleEvent(st, tl, circle) IN
  IF got.panic THEN Fail(st, "panic")
  ELSE IF got.event = <<>> THEN st
  ELSE
    LET roleEvent == got.event[1]
        d0 == roleEvent.data
        d1 == IF intoCircle
                THEN [d0 EXCEPT !.rolesToCircle = MapPut(@, roleID, prevID)]
                ELSE [d0 EXCEPT !.rolesFromCircle = MapPut(@, roleID, newID)]
        c1 == IF roleID \in DOMAIN d1.changedRoles
                THEN d1.changedRoles[roleID] ELSE RoleChange("Updated")
        m1 == MapPut(d1.changedRoles, roleID, [c1 EXCEPT !.moved = <<prevID, newID>>])
        c2 == IF affected \in DOMAIN m1 THEN m1[affected] ELSE RoleChange("Updated")
        m2 == MapPut(m1, affected,
                IF intoCircle
                  THEN [c2 EXCEPT !.rolesMovedToParent = Append(@, roleID)]
                  ELSE [c2 EXCEPT !.rolesMovedFromParent = Append(@, roleID)])
    IN insertRoleEvent(st, [roleEvent EXCEPT !.data = [d1 EXCEPT !.changedRoles = m2]])

\* digMovedFrom that leaves the digest of the old parent alone.
digMovedFromSkipped(s, tl, p, q, roleID) == s

\* The second half runs unless the first has failed.
digMovedFrom(s, tl, p, q, roleID) ==
  IF s.err # "ok" THEN s ELSE DigMoved(s, tl, q, p, roleID, q, p, FALSE)

digMovedBoth(st, tl, prole, prevProle, roleID) ==
  IF prole = <<>> \/ prevProle = <<>> THEN Fail(st, "error")
  ELSE digMovedFrom(DigMoved(st, tl, prole[1].id, prevProle[1].id, roleID,
                             prevProle[1].id, prole[1].id, TRUE),
                    tl, prole[1].id, prevProle[1].id, roleID)

DigRoleChangedParent(st, tl, ev, ord) ==
  \* *data.ParentRoleID is read without a nil check
  IF ev.parentRoleID = <<>> THEN Fail(st, "panic")
  ELSE IF RoleInternal(st, tl, ev.parentRoleID[1], ord) = <<>> THEN Fail(st, "error")
  ELSE IF BadTl(tl - 1) THEN Fail(st, "panic")
  ELSE digMovedBoth(st, tl, RoleInternal(st, tl, ev.parentRoleID[1], ord),
                    Lookup(RoleParentInternal(st, tl - 1, {ev.roleID}, ord), ev.roleID),
                    ev.roleID)

Digest(st, tl, ev, ord) ==
  CASE ev.type = "CommandExecuted" -> DigCommandExecuted(st, tl, ev)
    [] ev.type = "RoleCreated" -> DigRoleCreated(st, tl, ev, ord)
    [] ev.type = "RoleDeleted" -> DigRoleDeleted(st, tl, ev, ord)
    [] ev.type = "RoleUpdated" -> DigRoleUpdated(st, tl, ev, ord)
    [] ev.type = "RoleChangedParent" -> DigRoleChangedParent(st, tl, ev, ord)
    [] ev.type \in {"CommandExecutionFinished",
         "RoleDomainCreated", "RoleDomainUpdated", "RoleDomainDeleted",
         "RoleAccountabilityCreated", "RoleAccountabilityUpdated", "RoleAccountabilityDeleted",
         "RoleAdditionalContentSet", "RoleMemberAdded", "RoleMemberUpdated", "RoleMemberRemoved",
         "CircleDirectMemberAdded", "CircleDirectMemberRemoved",
         "CircleLeadLinkMemberSet", "CircleLeadLinkMemberUnset",
         "CircleCoreRoleMemberSet", "CircleCoreRoleMemberUnset",
         "TensionCreated", "TensionUpdated", "TensionRoleChanged", "TensionClosed",
         "MemberCreated", "MemberUpdated", "MemberPasswordSet", "MemberAvatarSet"} -> st
    [] OTHER -> Fail(st, "panic")

(***************************************************************************)
(* ApplyEvent.                                                             *)
(***************************************************************************)
\* The timeline of the event's group: the row of the group, inserted from the
\* event's timestamp when the group has none, and read back.
EventTimeLine(st, event) ==
  LET found == TimeLineForGroupID(st, event.groupID[1])
  IN IF found # <<>> THEN found[1] ELSE StoredTimestamp(st, event.timestamp)

\* Both passes of ApplyEvent at the timeline tl of the event's group.
digestAfter(s, tl, event, ord) ==
  IF s.err # "ok" THEN s ELSE Digest(s, tl, event, ord)

\* The event types of the two switches of ApplyEvent.
EventTypes ==
  {"CommandExecuted", "CommandExecutionFinished", "RoleCreated", "RoleDeleted", "RoleUpdated",
   "RoleDomainCreated", "RoleDomainUpdated", "RoleDomainDeleted",
   "RoleAccountabilityCreated", "RoleAccountabilityUpdated", "RoleAccountabilityDeleted",
   "RoleAdditionalContentSet", "RoleChangedParent",
   "RoleMemberAdded", "RoleMemberUpdated", "RoleMemberRemoved",
   "CircleDirectMemberAdded", "CircleDirectMemberRemoved",
   "CircleLeadLinkMemberSet", "CircleLeadLinkMemberUnset",
   "CircleCoreRoleMemberSet", "CircleCoreRoleMemberUnset",
   "TensionCreated", "TensionUpdated", "TensionRoleChanged", "TensionClosed",
   "MemberCreated", "MemberUpdated", "MemberPasswordSet", "MemberAvatarSet"}

\* A variant of applyAt that skips the events neither switch has a case for.
applyKnownAt(st, tl, event, ord) ==
  IF event.type \in EventTypes
    THEN digestAfter(Mutation(st, tl, event, ord), tl, event, ord)
    ELSE st

applyAt(st, tl, event, ord) ==
  digestAfter(Mutation(st, tl, event, ord), tl, event, ord)

\* The timeline row of the group is there: read it back, refresh curTl.
applyInGroup(st, event, ord) ==
  applyAt([st EXCEPT !.curTl = curTimeLineFromDB(st)],
          TimeLineForGroupID(st, event.groupID[1])[1], event, ord)

\* The store with the timeline row of the event's group.
withTimeLine(st, event) ==
  IF TimeLineForGroupID(st, event.groupID[1]) # <<>> THEN st
  ELSE [st EXCEPT !.timeline = @ \cup {[timestamp |-> StoredTimestamp(st, event.timestamp),
                                        groupid |-> event.groupID[1]]}]

\* A variant of ApplyEvent that opens a timeline for an event without a group.
ApplyEventStamped(st, event, ord) ==
  IF event.groupID = <<>>
    THEN [st EXCEPT !.timeline = @ \cup {[timestamp |-> StoredTimestamp(st, event.timestamp),
                                          groupid |-> 0]}]
  ELSE IF /\ TimeLineForGroupID(st, event.groupID[1]) = <<>>
          /\ \E r \in st.timeline : r.timestamp = StoredTimestamp(st, event.timestamp)
    THEN Fail(st, "error")
  ELSE applyInGroup(withTimeLine(st, event), event, ord)

ApplyEvent(st, event, ord) ==
  IF event.groupID = <<>> THEN st
  \* timeline.timestamp is the primary key of the table
  ELSE IF /\ TimeLineForGroupID(st, event.groupID[1]) = <<>>
          /\ \E r \in st.timeline : r.timestamp = StoredTimestamp(st, event.timestamp)
    THEN Fail(st, "error")
  ELSE applyInGroup(withTimeLine(st, event), event, ord)

(***************************************************************************)
(* CheckBrokenEdges: per edge class and side, the number of live edge rows *)
(* against the number of rows of their join with the live vertex rows.     *)
(***************************************************************************)
edgeClasses ==
  <<"rolerole", "roledomain", "roleaccountability", "rolemember", "circledirectmember",
    "membertension", "roletension">>

edgeCount(st, tl, ec) ==
  Len(SelectSeq(st.edge[ec], LAMBDA e : timeLineCond(st, e, tl)))

joinCount(st, tl, ec, edgePoint) ==
  LET vc == IF edgePoint = "x" THEN edgeClassX(ec) ELSE edgeClassY(ec)
      es == SelectSeq(st.edge[ec], LAMBDA e : timeLineCond(st, e, tl))
      vs == SelectSeq(st.vertex[vc], LAMBDA v : timeLineCond(st, v, tl))
      matches(e) == Len(SelectSeq(vs, LAMBDA v : v.id = (IF edgePoint = "x" THEN e.x ELSE e.y)))
      RECURSIVE sum(_)
      sum(i) == IF i = 0 THEN 0 ELSE matches(es[i]) + sum(i - 1)
  IN sum(Len(es))

\* The (edge class, side) pairs whose counts differ, in the order of the check.
brokenEdges(st, tl) ==
  LET pairs == Concat([i \in 1..Len(edgeClasses) |->
                 << <<edgeClasses[i], "x">>, <<edgeClasses[i], "y">> >>])
  IN SelectSeq(pairs, LAMBDA p : joinCount(st, tl, p[1], p[2]) # edgeCount(st, tl, p[1]))

\* A variant of CheckBrokenEdges without the test of tl.
CheckBrokenEdgesAnyTl(st, tl) ==
  IF brokenEdges(st, tl) # <<>> THEN Fail(st, "error") ELSE st

CheckBrokenEdges(st, tl) ==
  IF BadTl(tl) THEN Fail(st, "panic")
  ELSE IF brokenEdges(st, tl) # <<>> THEN Fail(st, "error")
  ELSE st

(***************************************************************************)
(* Read models.  A call returns [err, res]: err is "ok", or "panic" for a   *)
(* nil dereference, or "crash" for a loop that never ends.                  *)
(***************************************************************************)
\* RoleParents, first loop: fetch the parents of the parents until none is new.
RECURSIVE parentsClosure(_, _, _, _)
parentsClosure(st, tl, parents, ord) ==
  LET needed == {parents[k].id : k \in DOMAIN parents} \ DOMAIN parents
      roleParentGroups == RoleParentInternal(st, tl, needed, ord)
  IN IF DOMAIN roleParentGroups = {} THEN parents
     ELSE parentsClosure(st, tl, roleParentGroups @@ parents, ord)

\* RoleParents, second loop: follow parents from curID; fuel bounds the walk.
RECURSIVE parentChain(_, _, _)
parentChain(parents, curID, fuel) ==
  IF curID \notin DOMAIN parents \/ fuel = 0 THEN <<>>
  ELSE <<parents[curID]>> \o parentChain(parents, parents[curID].id, fuel - 1)

RoleParents(st, tl, rolesIDs, ord) ==
  IF BadTl(tl) THEN [err |-> "panic", res |-> <<>>]
  ELSE
    LET parents == parentsClosure(st, tl, RoleParentInternal(st, tl, rolesIDs, ord), ord)
        n == Cardinality(DOMAIN parents)
        \* the walk never ends iff it is still inside parents after n steps
        endless(id) == Len(parentChain(parents, id, n + 1)) > n
    IN IF \E id \in rolesIDs : endless(id) THEN [err |-> "crash", res |-> <<>>]
       ELSE [err |-> "ok", res |-> [id \in rolesIDs |-> parentChain(parents, id, n)]]

DirectMemberCirclesInternal(st, tl, membersIDs, ord) ==
  scanGroups(connectedVertices(st, tl, membersIDs, "circledirectmember", "out", ord))

MemberRoleEdgesInternal(st, tl, membersIDs, ord) ==
  scanGroups(connectedVertices(st, tl, membersIDs, "rolemember", "out", ord))

CircleDirectMembersInternal(st, tl, rolesIDs, ord) ==
  scanGroups(connectedVertices(st, tl, rolesIDs, "circledirectmember", "in", ord))

RoleMemberEdgesInternal(st, tl, rolesIDs, ord) ==
  scanGroups(connectedVertices(st, tl, rolesIDs, "rolemember", "in", ord))

GroupOf(groups, k) == IF k \in DOMAIN groups THEN groups[k] ELSE <<>>

\* A MemberCircleEdge or CircleMemberEdge; other is the circle or the member.
NewEdge(other) ==
  [other |-> other, isDirectMember |-> FALSE, isLeadLink |-> FALSE, isCoreMember |-> FALSE,
   filledRoles |-> <<>>, repLink |-> <<>>]

EdgeOf(m, other) == IF other.id \in DOMAIN m THEN m[other.id] ELSE NewEdge(other)

\* A final loop that leaves rep links out.
SetCoreMemberNoRepLink(m) ==
  [k \in DOMAIN m |->
     [m[k] EXCEPT !.isCoreMember = m[k].isDirectMember \/ Len(m[k].filledRoles) > 0]]

\* The final loop of both rollups.
SetCoreMember(m) ==
  [k \in DOMAIN m |->
     [m[k] EXCEPT !.isCoreMember =
        m[k].isDirectMember \/ Len(m[k].filledRoles) > 0 \/ Len(m[k].repLink) > 0]]

RECURSIVE addDirect(_, _)
addDirect(m, rows) ==
  IF rows = <<>> THEN m
  ELSE addDirect(MapPut(m, Head(rows).v.id,
                        [EdgeOf(m, Head(rows).v) EXCEPT !.isDirectMember = TRUE]),
                 Tail(rows))

\* MemberCircleEdgesInternal, "Add role fillers": acc is [err, m].
RECURSIVE memberFillers(_, _, _)
memberFillers(acc, rows, parentMap) ==
  IF rows = <<>> \/ acc.err # "ok" THEN acc
  ELSE
    LET role == Head(rows).v
        parent == Lookup(parentMap, role.id)
    IN IF Head(rows).e.data.nocoremember THEN memberFillers(acc, Tail(rows), parentMap)
       \* parent.ID is read without a nil check
       ELSE IF parent = <<>> THEN [acc EXCEPT !.err = "panic"]
       ELSE
         LET e1 == [EdgeOf(acc.m, parent[1]) EXCEPT !.filledRoles = Append(@, role)]
             e2 == IF role.data.roletype = "leadlink" THEN [e1 EXCEPT !.isLeadLink = TRUE] ELSE e1
         IN memberFillers([acc EXCEPT !.m = MapPut(acc.m, parent[1].id, e2)],
                          Tail(rows), parentMap)

\* A rollup that records a rep link filler as a direct member instead.
RECURSIVE circleRepLinksAsDirect(_, _, _)
circleRepLinksAsDirect(m, child, rows) ==
  IF rows = <<>> THEN m
  ELSE circleRepLinksAsDirect(
         MapPut(m, Head(rows).v.id, [EdgeOf(m, Head(rows).v) EXCEPT !.isDirectMember = TRUE]),
         child, Tail(rows))

\* MemberCircleEdgesInternal, "Add sub circles replink fillers".
RECURSIVE memberRepLinks(_, _, _)
memberRepLinks(acc, rows, parentMap) ==
  IF rows = <<>> \/ acc.err # "ok" THEN acc
  ELSE
    LET role == Head(rows).v
        parent == Lookup(parentMap, role.id)
        parentParent == IF parent = <<>> THEN <<>> ELSE Lookup(parentMap, parent[1].id)
    IN IF role.data.roletype # "replink" THEN memberRepLinks(acc, Tail(rows), parentMap)
       \* parent.ID and parentParent.ID are read without a nil check
       ELSE IF parent = <<>> \/ parentParent = <<>> THEN [acc EXCEPT !.err = "panic"]
       ELSE memberRepLinks(
              [acc EXCEPT !.m = MapPut(acc.m, parentParent[1].id,
                 [EdgeOf(acc.m, parentParent[1]) EXCEPT !.repLink = Append(@, parent[1])])],
              Tail(rows), parentMap)

MemberCircleEdgesInternal(st, tl, membersIDs, ord) ==
  IF BadTl(tl) THEN [err |-> "panic", res |-> <<>>]
  ELSE
    LET rolesGroups == DirectMemberCirclesInternal(st, tl, membersIDs, ord)
        memberRoleEdgesGroups == MemberRoleEdgesInternal(st, tl, membersIDs, ord)
        roleIDs == UNION {{r.v.id : r \in Range(memberRoleEdgesGroups[k])} :
                            k \in DOMAIN memberRoleEdgesGroups}
        parentGroups == RoleParentInternal(st, tl, roleIDs, ord)
        parentIDs == {parentGroups[k].id : k \in DOMAIN parentGroups}
        subParentGroups == RoleParentInternal(st, tl, parentIDs, ord)
        parentMap == subParentGroups @@ parentGroups
        one(memberID) ==
          LET d == addDirect(<<>>, GroupOf(rolesGroups, memberID))
              f == memberFillers([err |-> "ok", m |-> d],
                                 GroupOf(memberRoleEdgesGroups, memberID), parentMap)
          IN memberRepLinks(f, GroupOf(memberRoleEdgesGroups, memberID), parentMap)
    IN IF \E memberID \in membersIDs : one(memberID).err # "ok"
         THEN [err |-> "panic", res |-> <<>>]
         ELSE [err |-> "ok", res |-> [memberID \in membersIDs |-> SetCoreMember(one(memberID).m)]]

\* Role fillers without the no_core_member test.
RECURSIVE circleFillersAll(_, _, _)
circleFillersAll(m, child, rows) ==
  IF rows = <<>> THEN m
  ELSE circleFillersAll(
         MapPut(m, Head(rows).v.id,
                [EdgeOf(m, Head(rows).v) EXCEPT !.filledRoles = Append(@, child)]),
         child, Tail(rows))

\* CircleMemberEdgesInternal, "Add role fillers": one child of the circle.
RECURSIVE circleFillers(_, _, _)
circleFillers(m, child, rows) ==
  IF rows = <<>> THEN m
  ELSE
    LET member == Head(rows).v IN
    IF Head(rows).e.data.nocoremember THEN circleFillers(m, child, Tail(rows))
    ELSE
      LET e1 == [EdgeOf(m, member) EXCEPT !.filledRoles = Append(@, child)]
          e2 == IF child.data.roletype = "leadlink" THEN [e1 EXCEPT !.isLeadLink = TRUE] ELSE e1
      IN circleFillers(MapPut(m, member.id, e2), child, Tail(rows))

\* CircleMemberEdgesInternal, "Add sub circles replink fillers": one rep link
\* of one child.
RECURSIVE circleRepLinks(_, _, _)
circleRepLinks(m, child, rows) ==
  IF rows = <<>> THEN m
  ELSE circleRepLinks(
         MapPut(m, Head(rows).v.id,
                [EdgeOf(m, Head(rows).v) EXCEPT !.repLink = Append(@, child)]),
         child, Tail(rows))

CircleMemberEdgesInternal(st, tl, rolesIDs, ord) ==
  IF BadTl(tl) THEN [err |-> "panic", res |-> <<>>]
  ELSE
    LET membersGroups == CircleDirectMembersInternal(st, tl, rolesIDs, ord)
        childsGroups == ChildRolesInternal(st, tl, rolesIDs, ord)
        childsIDs == UNION {{c.id : c \in Range(childsGroups[k])} : k \in DOMAIN childsGroups}
        subChildsGroups == ChildRolesInternal(st, tl, childsIDs, ord)
        allIDs == childsIDs \cup
                  UNION {{c.id : c \in Range(subChildsGroups[k])} : k \in DOMAIN subChildsGroups}
        roleMemberEdgesGroups == RoleMemberEdgesInternal(st, tl, allIDs, ord)
        RECURSIVE fillers(_, _)
        fillers(m, childs) ==
          IF childs = <<>> THEN m
          ELSE fillers(circleFillers(m, Head(childs),
                                     GroupOf(roleMemberEdgesGroups, Head(childs).id)),
                       Tail(childs))
        RECURSIVE subs(_, _, _)
        subs(m, child, subChilds) ==
          IF subChilds = <<>> THEN m
          ELSE subs(IF Head(subChilds).data.roletype # "replink" THEN m
                    ELSE circleRepLinks(m, child,
                                        GroupOf(roleMemberEdgesGroups, Head(subChilds).id)),
                    child, Tail(subChilds))
        RECURSIVE repLinks(_, _)
        repLinks(m, childs) ==
          IF childs = <<>> THEN m
          ELSE repLinks(subs(m, Head(childs), GroupOf(subChildsGroups, Head(childs).id)),
                        Tail(childs))
        one(roleID) ==
          LET d == addDirect(<<>>, GroupOf(membersGroups, roleID))
              f == fillers(d, GroupOf(childsGroups, roleID))
          IN repLinks(f, GroupOf(childsGroups, roleID))
    IN [err |-> "ok", res |-> [roleID \in rolesIDs |-> SetCoreMember(one(roleID))]]

(***************************************************************************)
(* ApplyEvents: the loop over ApplyEvent, then CheckBrokenEdges at curTl.  *)
(***************************************************************************)
\* ApplyEvents on a list: stop at the first failure, check at the end.
RECURSIVE ApplyEventsLoop(_, _, _)
ApplyEventsLoop(st, events, ord) ==
  IF events = <<>> \/ st.err # "ok" THEN st
  ELSE ApplyEventsLoop(ApplyEvent(st, Head(events), ord), Tail(events), ord)

checkAfterLoop(s) == IF s.err # "ok" THEN s ELSE CheckBrokenEdges(s, s.curTl)

ApplyEvents(st, events, ord) == checkAfterLoop(ApplyEventsLoop(st, events, ord))

Store ==
  [timeline |-> timeline, vertex |-> vertex, edge |-> edge, roleevent |-> roleevent,
   password |-> password, curTl |-> curTl, resolution |-> resolution, err |-> err]

\* What the generic readers return at tl: per vertex class the live rows, per
\* edge class the join from every source id.
ReadAll(st, tl) ==
  [vs |-> [vc \in VertexClasses |-> verticesAll(st, tl, vc, "fwd")],
   es |-> [ec \in EdgeClassNames |->
             LET res == connectedVertices(st, tl, {e.x : e \in Range(st.edge[ec])}, ec, "out", "fwd")
             IN [i \in 1..Len(res) |->
                   [group |-> res[i].group, v |-> res[i].v, values |-> res[i].e.data]]]]

\* The store becomes s.
Becomes(s) ==
  /\ timeline' = s.timeline
  /\ vertex' = s.vertex
  /\ edge' = s.edge
  /\ roleevent' = s.roleevent
  /\ password' = s.password
  /\ curTl' = s.curTl
  /\ err' = s.err

\* One iteration of the loop of ApplyEvents on event e.
ApplyNext(e, ord) ==
  /\ Becomes(ApplyEvent(Store, e, ord))
  /\ last' = e
  \* a write at a timeline outdates what was read there before
  /\ snap' = IF e.groupID = <<>> THEN snap
             ELSE [t \in (DOMAIN snap) \ {EventTimeLine(Store, e)} |-> snap[t]]
  /\ nevents' = nevents + 1
  /\ pc' = "loop"
  /\ UNCHANGED <<resolution, txBegin, threads>>

Apply(ev, ord, max) ==
  /\ err = "ok"
  /\ nevents < max
  /\ ApplyNext([ev EXCEPT !.id = nevents + 1], ord)

\* The end of ApplyEvents: the integrity check, at the current timeline only.
ApplyEventsReturn ==
  /\ err = "ok"
  /\ pc = "loop"
  /\ LET s == CheckBrokenEdges(Store, curTl) IN err' = s.err
  /\ pc' = "returned"
  /\ UNCHANGED <<timeline, vertex, edge, roleevent, password, curTl, resolution,
                 last, nevents, snap, txBegin, threads>>

\* A client reads the committed store at the current timeline.
Read ==
  /\ err = "ok"
  /\ pc = "returned"
  /\ curTl > 0
  /\ curTl \notin DOMAIN snap
  /\ snap' = MapPut(snap, curTl, ReadAll(Store, curTl))
  /\ UNCHANGED <<timeline, vertex, edge, roleevent, password, curTl, resolution, err,
                 last, nevents, pc, txBegin, threads>>

(***************************************************************************)
(* The event streams.                                                      *)
(***************************************************************************)
Orders == {"fwd", "rev"}

\* The (group id, timestamp) an event may carry: the group of the last event,
\* or a new group whose timestamp is taken from stamps.
GroupStamps(stamps) ==
  (IF last.groupID # <<>> THEN {<<last.groupID[1], last.timestamp>>} ELSE {})
  \cup {<<Cardinality(timeline) + 1, ts>> : ts \in stamps}

\* A log of at most max events whose groups arrive in time order.
InOrder(max) == [stamps |-> {curTl + Gap}, max |-> max]

\* A log of at most max events whose groups arrive in any order.
AnyOrder(max) ==
  [stamps |-> {ts \in 1..MaxStamp : StoredTimestamp(Store, ts) > 0}, max |-> max]

Event(gs, type) ==
  [NoEvent EXCEPT !.groupID = <<gs[1]>>, !.timestamp = gs[2], !.type = type]

KnownRoles == {r.id : r \in Range(vertex["role"])}
KnownMembers == {r.id : r \in Range(vertex["member"])}
FreshRole == RoleSeq[Cardinality(KnownRoles) + 1]

CommandExecuted(k) ==
  \E gs \in GroupStamps(k.stamps), r \in KnownRoles, c \in {"CircleCreateChildRole", "SetupRootCircle"} :
    Apply([Event(gs, "CommandExecuted") EXCEPT !.roleID = r, !.commandType = c], "fwd", k.max)

RoleCreated(k, types) ==
  /\ Cardinality(KnownRoles) < Len(RoleSeq)
  /\ \E gs \in GroupStamps(k.stamps), p \in {<<>>} \cup {<<r>> : r \in KnownRoles},
        t \in types, ord \in Orders :
       Apply([Event(gs, "RoleCreated") EXCEPT
                !.roleID = FreshRole, !.parentRoleID = p, !.roleType = t, !.text = "n"], ord, k.max)

RoleUpdated(k) ==
  \E gs \in GroupStamps(k.stamps), r \in KnownRoles, ord \in Orders :
    LET rows == SelectSeq(vertex["role"], LAMBDA v : v.id = r)
    IN Apply([Event(gs, "RoleUpdated") EXCEPT
                !.roleID = r, !.roleType = rows[1].data.roletype, !.text = "n2"], ord, k.max)

RoleDeleted(k) ==
  \E gs \in GroupStamps(k.stamps), r \in KnownRoles, ord \in Orders :
    Apply([Event(gs, "RoleDeleted") EXCEPT !.roleID = r], ord, k.max)

RoleChangedParent(k) ==
  /\ Len(vertex["role"]) <= MaxRows
  /\ \E gs \in GroupStamps(k.stamps), r \in KnownRoles,
        p \in {<<>>} \cup {<<q>> : q \in KnownRoles}, ord \in Orders :
       Apply([Event(gs, "RoleChangedParent") EXCEPT !.roleID = r, !.parentRoleID = p], ord, k.max)

(***************************************************************************)
(* The role tree under a stream in time order.                             *)
(***************************************************************************)
EmptyTables(classes) == [c \in classes |-> <<>>]

Init ==
  /\ timeline = {}
  /\ vertex = EmptyTables(VertexClasses)
  /\ edge = EmptyTables(EdgeClassNames)
  /\ roleevent = <<>>
  /\ password = <<>>
  /\ curTl = 0
  /\ resolution = 1
  /\ err = "ok"
  /\ last = NoEvent
  /\ nevents = 0
  /\ pc = "returned"
  /\ snap = <<>>
  /\ txBegin = <<>>
  /\ threads = NoThreads

Next ==
  \/ CommandExecuted(InOrder(MaxEvents))
  \/ RoleCreated(InOrder(MaxEvents), {"circle", "leadlink"})
  \/ RoleUpdated(InOrder(MaxEvents))
  \/ RoleDeleted(InOrder(MaxEvents))
  \/ RoleChangedParent(InOrder(MaxEvents))
  \/ ApplyEventsReturn

Spec == Init /\ [][Next]_vars

(***************************************************************************)
(* Member events.                                                          *)
(***************************************************************************)
RoleMemberAdded(k) ==
  \E gs \in GroupStamps(k.stamps), r \in KnownRoles, m \in KnownMembers :
    Apply([Event(gs, "RoleMemberAdded") EXCEPT !.roleID = r, !.memberID = m], "fwd", k.max)

RoleMemberUpdated(k) ==
  \E gs \in GroupStamps(k.stamps), r \in KnownRoles, m \in KnownMembers :
    Apply([Event(gs, "RoleMemberUpdated") EXCEPT
             !.roleID = r, !.memberID = m, !.noCoreMember = TRUE], "fwd", k.max)

RoleMemberRemoved(k) ==
  \E gs \in GroupStamps(k.stamps), r \in KnownRoles, m \in KnownMembers :
    Apply([Event(gs, "RoleMemberRemoved") EXCEPT !.roleID = r, !.memberID = m], "fwd", k.max)

CircleDirectMemberAdded(k) ==
  \E gs \in GroupStamps(k.stamps), r \in KnownRoles, m \in KnownMembers :
    Apply([Event(gs, "CircleDirectMemberAdded") EXCEPT !.roleID = r, !.memberID = m], "fwd", k.max)

CircleDirectMemberRemoved(k) ==
  \E gs \in GroupStamps(k.stamps), r \in KnownRoles, m \in KnownMembers :
    Apply([Event(gs, "CircleDirectMemberRemoved") EXCEPT !.roleID = r, !.memberID = m], "fwd", k.max)

(***************************************************************************)
(* An organization already set up: the root circle r1, its sub-circle r2   *)
(* with the rep link r3, and the member m1, as ApplyEvents leaves them.    *)
(***************************************************************************)
EmptyStore ==
  [timeline |-> {}, vertex |-> EmptyTables(VertexClasses), edge |-> EmptyTables(EdgeClassNames),
   roleevent |-> <<>>, password |-> <<>>, curTl |-> 0, resolution |-> 1, err |-> "ok"]

SetupEvents ==
  << [NoEvent EXCEPT !.id = -1, !.groupID = <<1>>, !.timestamp = Gap, !.type = "RoleCreated",
        !.roleID = "r1", !.roleType = "circle", !.text = "n"],
     [NoEvent EXCEPT !.id = -2, !.groupID = <<1>>, !.timestamp = Gap, !.type = "MemberCreated",
        !.aggregateID = "m1", !.text = "m1"],
     [NoEvent EXCEPT !.id = -3, !.groupID = <<2>>, !.timestamp = 2 * Gap, !.type = "CommandExecuted",
        !.roleID = "r1", !.commandType = "CircleCreateChildRole"],
     [NoEvent EXCEPT !.id = -4, !.groupID = <<2>>, !.timestamp = 2 * Gap, !.type = "RoleCreated",
        !.roleID = "r2", !.parentRoleID = <<"r1">>, !.roleType = "circle", !.text = "n"],
     [NoEvent EXCEPT !.id = -5, !.groupID = <<2>>, !.timestamp = 2 * Gap, !.type = "RoleCreated",
        !.roleID = "r3", !.parentRoleID = <<"r2">>, !.roleType = "replink", !.text = "n"] >>

SetUp == ApplyEvents(EmptyStore, SetupEvents, "fwd")

\* The store is s.
StoreIs(s) ==
  /\ timeline = s.timeline
  /\ vertex = s.vertex
  /\ edge = s.edge
  /\ roleevent = s.roleevent
  /\ password = s.password
  /\ curTl = s.curTl
  /\ resolution = s.resolution
  /\ err = s.err

InitSetUp ==
  /\ StoreIs(SetUp)
  /\ last = NoEvent
  /\ nevents = 0
  /\ pc = "returned"
  /\ snap = <<>>
  /\ txBegin = <<>>
  /\ threads = NoThreads

\* Reorganizing the tree.
NextTree ==
  \/ RoleUpdated(InOrder(MaxSteps))
  \/ RoleDeleted(InOrder(MaxSteps))
  \/ RoleChangedParent(InOrder(MaxSteps))
  \/ ApplyEventsReturn

SpecTree == InitSetUp /\ [][NextTree]_vars

\* Updates and deletions, with clients reading in between.
NextHistory ==
  \/ RoleUpdated(InOrder(MaxSteps))
  \/ RoleDeleted(InOrder(MaxSteps))
  \/ RoleMemberAdded(InOrder(MaxSteps))
  \/ RoleMemberRemoved(InOrder(MaxSteps))
  \/ ApplyEventsReturn
  \/ Read

SpecHistory == InitSetUp /\ [][NextHistory]_vars

\* Assigning members.
NextOrg ==
  \/ RoleMemberAdded(InOrder(MaxSteps))
  \/ RoleMemberUpdated(InOrder(MaxSteps))
  \/ RoleMemberRemoved(InOrder(MaxSteps))
  \/ CircleDirectMemberAdded(InOrder(MaxSteps))
  \/ CircleDirectMemberRemoved(InOrder(MaxSteps))
  \/ RoleDeleted(InOrder(MaxSteps))
  \/ ApplyEventsReturn

SpecOrg == InitSetUp /\ [][NextOrg]_vars

(***************************************************************************)
(* A log whose groups arrive in any order of their timestamps, on a store  *)
(* that keeps timestamps as given or at a coarser resolution.              *)
(***************************************************************************)
\* An event without a group id: ApplyEvent returns at once.
Ungrouped(k) ==
  \E r \in KnownRoles :
    Apply([NoEvent EXCEPT !.type = "RoleUpdated", !.timestamp = MaxStamp, !.roleID = r],
          "fwd", k.max)

InitAnyOrder ==
  /\ timeline = {}
  /\ vertex = EmptyTables(VertexClasses)
  /\ edge = EmptyTables(EdgeClassNames)
  /\ roleevent = <<>>
  /\ password = <<>>
  /\ curTl = 0
  /\ resolution \in {1, 2}
  /\ err = "ok"
  /\ last = NoEvent
  /\ nevents = 0
  /\ pc = "returned"
  /\ snap = <<>>
  /\ txBegin = <<>>
  /\ threads = NoThreads

NextAnyOrder ==
  \/ RoleCreated(AnyOrder(MaxSteps), {"leadlink"})
  \/ RoleUpdated(AnyOrder(MaxSteps))
  \/ Ungrouped(AnyOrder(MaxSteps))
  \/ ApplyEventsReturn

SpecAnyOrder == InitAnyOrder /\ [][NextAnyOrder]_vars

(***************************************************************************)
(* The temporal invariants of the store.                                   *)
(***************************************************************************)
Timelines == {r.timestamp : r \in timeline}

\* A row is live at t: start_tl <= t and end_tl is null or >= t.
LiveAt(r, t) == r.start_tl <= t /\ (r.end_tl = <<>> \/ r.end_tl[1] >= t)

LiveVertices(vc, id, t) == SelectSeq(vertex[vc], LAMBDA r : r.id = id /\ LiveAt(r, t))
LiveEdges(ec, x, y, t) == SelectSeq(edge[ec], LAMBDA e : e.x = x /\ e.y = y /\ LiveAt(e, t))

\* ApplyEvents has returned without an error: the caller commits.
Committed == pc = "returned" /\ err = "ok"

\* C1: after any sequence of applied events, several of which may touch the
\* same vertex within one group, every (vertex class, id, timeline) has at most
\* one live row.
C1_VertexUniqueness ==
  Committed =>
    \A vc \in VertexClasses, t \in Timelines :
      \A i \in 1..Len(vertex[vc]) : Len(LiveVertices(vc, vertex[vc][i].id, t)) <= 1

\* C2: after any sequence of applied events, every (edge class, x, y, timeline)
\* has at most one live edge row.
C2_EdgeUniqueness ==
  Committed =>
    \A ec \in EdgeClassNames, t \in Timelines :
      \A i \in 1..Len(edge[ec]) : Len(LiveEdges(ec, edge[ec][i].x, edge[ec][i].y, t)) <= 1

\* C3: after ApplyEvents returns successfully, at every timeline of the store
\* (not only the newest) both endpoints of every live edge are live vertices of
\* the classes the edge class prescribes.
C3_NoDanglingEdges ==
  Committed =>
    \A ec \in EdgeClassNames, t \in Timelines :
      \A i \in 1..Len(edge[ec]) :
        LiveAt(edge[ec][i], t) =>
          /\ LiveVertices(edgeClassX(ec), edge[ec][i].x, t) # <<>>
          /\ LiveVertices(edgeClassY(ec), edge[ec][i].y, t) # <<>>

\* The live parents of role id at t: the live rows at the x end of its live
\* rolerole edges.
LiveParents(id, t) ==
  {p \in Range(vertex["role"]) :
     /\ LiveAt(p, t)
     /\ \E e \in Range(edge["rolerole"]) : e.y = id /\ e.x = p.id /\ LiveAt(e, t)}

\* C4: in every store state reached by applying events and committed, at every
\* timeline, a live role has depth 0 when it has no parent and depth(parent) + 1
\* otherwise.
C4_DepthInvariant ==
  Committed =>
    \A t \in Timelines : \A r \in Range(vertex["role"]) :
      LiveAt(r, t) =>
        IF LiveParents(r.id, t) = {}
          THEN r.data.depth = 0
          ELSE \A p \in LiveParents(r.id, t) : r.data.depth = p.data.depth + 1

(***************************************************************************)
(* Time travel.                                                            *)
(***************************************************************************)
\* A returned row without its end_tl.
NoEnd(r) == [id |-> r.id, start_tl |-> r.start_tl, data |-> r.data]

ReadNoEnd(rd) ==
  [vs |-> [vc \in VertexClasses |-> [i \in 1..Len(rd.vs[vc]) |-> NoEnd(rd.vs[vc][i])]],
   es |-> [ec \in EdgeClassNames |->
             [i \in 1..Len(rd.es[ec]) |-> [rd.es[ec][i] EXCEPT !.v = NoEnd(@)]]]]

GroupTimeLine == TimeLineForGroupID(Store, last.groupID[1])[1]

\* ApplyEvent has just returned successfully for an event with a group id.
Applied == nevents' = nevents + 1 /\ err' = "ok" /\ last'.groupID # <<>>

\* The start_tl of the rows this step has inserted.
Written ==
  UNION {{vertex'[vc][i].start_tl : i \in (Len(vertex[vc]) + 1)..Len(vertex'[vc])} :
           vc \in VertexClasses}
  \cup UNION {{edge'[ec][i].start_tl : i \in (Len(edge[ec]) + 1)..Len(edge'[ec])} :
                ec \in EdgeClassNames}

\* C6 as stated: after ApplyEvent returns successfully for an event of group g,
\* curTl is the timeline row of g, whose timestamp is that of the event that
\* opened g (at the resolution of the store), and every row the event has written starts at curTl, for every
\* order of the timestamps across groups.
C6_CurTlIsGroupTimeLine ==
  [][Applied =>
       /\ curTl' = GroupTimeLine'
       /\ GroupTimeLine' = (last'.timestamp \div resolution) * resolution
       /\ \A t \in Written : t = curTl']_vars

\* C6, amended: after ApplyEvent returns successfully for an event of group g,
\* curTl is the greatest timestamp of the timeline table, the row of g holds the
\* opening event's timestamp at the resolution of the store, and every row the
\* event has written starts at the timeline of g; that is curTl exactly when no
\* group has a greater timestamp.
C6_CurTlIsNewest ==
  [][Applied =>
       /\ curTl' = Max({r.timestamp : r \in timeline'})
       /\ GroupTimeLine' = (last'.timestamp \div resolution) * resolution
       /\ \A t \in Written : t = GroupTimeLine'
       /\ (\A r \in timeline' : r.timestamp <= GroupTimeLine') => curTl' = GroupTimeLine']_vars

\* An event has been applied to a group older than the newest one.
C6_Witness ==
  /\ err = "ok"
  /\ last.groupID # <<>>
  /\ GroupTimeLine < curTl
  /\ \E r \in Range(vertex["role"]) : r.id = last.roleID /\ r.start_tl = GroupTimeLine

(***************************************************************************)
(* A role created and deleted in one group.                                *)
(***************************************************************************)
\* ApplyEvent was last called with RoleDeleted for a role that the same group
\* has created.
CreatedAndDeleted ==
  /\ pc = "loop"
  /\ last.type = "RoleDeleted"
  /\ \E r \in Range(vertex["role"]) : r.id = last.roleID
  /\ \A r \in Range(vertex["role"]) : r.id = last.roleID => r.start_tl = GroupTimeLine

\* The circles under which the group has created the role, and whose digest a
\* child role command of the group has opened.
DigestParents ==
  {e.x : e \in {e \in Range(edge["rolerole"]) :
                  /\ e.y = last.roleID
                  /\ e.start_tl = GroupTimeLine
                  /\ \E d \in Range(roleevent) :
                       d.timeline = GroupTimeLine /\ d.roleid = e.x}}

\* C7: in one group opened by a child role command on circle Y, applying
\* RoleCreated(X, parent Y) and then RoleDeleted(X) completes without failure
\* and the digest of Y at that timeline has no entry for X.
C7_CreateDeleteDigest ==
  (CreatedAndDeleted /\ DigestParents # {}) =>
    /\ err = "ok"
    /\ \A d \in Range(roleevent) :
         (d.timeline = GroupTimeLine /\ d.roleid \in DigestParents)
           => last.roleID \notin DOMAIN d.data.changedRoles

\* C8: when a role is created and then deleted by events of one group, the
\* group is applied and afterwards the role is absent at that timeline and no
\* role to role edge ending at it is live there.
C8_CreateDeleteAbsent ==
  CreatedAndDeleted =>
    /\ err = "ok"
    /\ LiveVertices("role", last.roleID, GroupTimeLine) = <<>>
    /\ \A e \in Range(edge["rolerole"]) : e.y = last.roleID => ~LiveAt(e, GroupTimeLine)

(***************************************************************************)
(* Read models on the committed store.                                     *)
(***************************************************************************)
\* C9: for every live role r at a timeline, RoleParents returns the chain of
\* its ancestors: it starts at the direct parent, ends at the root, has length
\* r.depth, and each element is one less deep than the one before.
C9_RoleParentsChain ==
  Committed =>
    \A tl \in Timelines, ord \in Orders :
      \A r \in Range(verticesAll(Store, tl, "role", "fwd")) :
        LET out == RoleParents(Store, tl, {r.id}, ord)
            chain == out.res[r.id]
        IN /\ out.err = "ok"
           /\ Len(chain) = r.data.depth
           /\ \A i \in 1..Len(chain) : chain[i].data.depth = r.data.depth - i
           /\ chain # <<>> =>
                /\ chain[1] \in LiveParents(r.id, tl)
                /\ LiveParents(chain[Len(chain)].id, tl) = {}

IDs(rows) == {rows[i].id : i \in 1..Len(rows)}

\* C10: at a timeline, MemberCircleEdges has an edge (m, c) iff
\* CircleMemberEdges has the edge (c, m), the two carry the same flags, filled
\* roles and rep links, and both calls complete without failure.
C10_MemberCircleSymmetry ==
  Committed =>
    \A tl \in Timelines, ord \in Orders, m \in KnownMembers, c \in KnownRoles :
      LET M == MemberCircleEdgesInternal(Store, tl, {m}, ord)
          C == CircleMemberEdgesInternal(Store, tl, {c}, ord)
      IN /\ M.err = "ok"
         /\ C.err = "ok"
         /\ c \in DOMAIN M.res[m] <=> m \in DOMAIN C.res[c]
         /\ c \in DOMAIN M.res[m] =>
              /\ M.res[m][c].isDirectMember = C.res[c][m].isDirectMember
              /\ M.res[m][c].isLeadLink = C.res[c][m].isLeadLink
              /\ M.res[m][c].isCoreMember = C.res[c][m].isCoreMember
              /\ IDs(M.res[m][c].filledRoles) = IDs(C.res[c][m].filledRoles)
              /\ IDs(M.res[m][c].repLink) = IDs(C.res[c][m].repLink)

(***************************************************************************)
(* A circle with its core roles: the root circle r1, its sub-circle r2     *)
(* with the rep link r3 and the lead link r4, and the member m1.           *)
(***************************************************************************)
CircleSetupEvents ==
  SetupEvents \o
  << [NoEvent EXCEPT !.id = -6, !.groupID = <<2>>, !.timestamp = 2 * Gap, !.type = "RoleCreated",
        !.roleID = "r4", !.parentRoleID = <<"r2">>, !.roleType = "leadlink", !.text = "n"] >>

CircleSetUp == ApplyEvents(EmptyStore, CircleSetupEvents, "fwd")

InitCircle ==
  /\ StoreIs(CircleSetUp)
  /\ last = NoEvent
  /\ nevents = 0
  /\ pc = "returned"
  /\ snap = <<>>
  /\ txBegin = <<>>
  /\ threads = NoThreads

\* The roles of a type, as the command that emits the event picks them.
RolesOfType(t) == {r.id : r \in {r \in Range(vertex["role"]) : r.data.roletype = t}}

CircleLeadLinkMemberSet(k) ==
  \E gs \in GroupStamps(k.stamps), r \in RolesOfType("leadlink"), m \in KnownMembers :
    Apply([Event(gs, "CircleLeadLinkMemberSet") EXCEPT !.roleID = r, !.memberID = m],
          "fwd", k.max)

CircleLeadLinkMemberUnset(k) ==
  \E gs \in GroupStamps(k.stamps), r \in RolesOfType("leadlink"), m \in KnownMembers :
    Apply([Event(gs, "CircleLeadLinkMemberUnset") EXCEPT !.roleID = r, !.memberID = m],
          "fwd", k.max)

RoleMemberAddedWith(k, flags) ==
  \E gs \in GroupStamps(k.stamps), r \in KnownRoles, m \in KnownMembers, f \in flags :
    Apply([Event(gs, "RoleMemberAdded") EXCEPT
             !.roleID = r, !.memberID = m, !.noCoreMember = f], "fwd", k.max)

NextCircle ==
  \/ CircleLeadLinkMemberSet(InOrder(MaxSteps))
  \/ CircleLeadLinkMemberUnset(InOrder(MaxSteps))
  \/ RoleMemberAddedWith(InOrder(MaxSteps), BOOLEAN)
  \/ RoleMemberUpdated(InOrder(MaxSteps))
  \/ RoleMemberRemoved(InOrder(MaxSteps))
  \/ CircleDirectMemberAdded(InOrder(MaxSteps))
  \/ ApplyEventsReturn

SpecCircle == InitCircle /\ [][NextCircle]_vars

(***************************************************************************)
(* The rollups.                                                            *)
(***************************************************************************)
\* The live role member edges of member m at timeline t.
FilledBy(m, t) == {e \in Range(edge["rolemember"]) : e.x = m /\ LiveAt(e, t)}

\* The child roles of circle c that member m fills as a core member at t.
CoreFilled(c, m, t) ==
  {r.id : r \in {r \in Range(vertex["role"]) :
                   /\ LiveAt(r, t)
                   /\ c \in {p.id : p \in LiveParents(r.id, t)}
                   /\ \E e \in FilledBy(m, t) : e.y = r.id /\ ~e.data.nocoremember}}

\* A rollup entry of circle c and member m is what the rules say.
EntryRules(e, c, m, t) ==
  /\ IDs(e.filledRoles) = CoreFilled(c, m, t)
  /\ e.isLeadLink <=> \E i \in 1..Len(e.filledRoles) : e.filledRoles[i].data.roletype = "leadlink"
  /\ e.isCoreMember <=> (e.isDirectMember \/ e.filledRoles # <<>> \/ e.repLink # <<>>)

\* Every entry of both rollups, at every timeline, is what the rules say.
RollupRules ==
  \A t \in Timelines, ord \in Orders :
    /\ \A m \in KnownMembers :
         LET M == MemberCircleEdgesInternal(Store, t, {m}, ord)
         IN M.err = "ok" => \A c \in DOMAIN M.res[m] : EntryRules(M.res[m][c], c, m, t)
    /\ \A c \in KnownRoles :
         LET C == CircleMemberEdgesInternal(Store, t, {c}, ord)
         IN \A m \in DOMAIN C.res[c] : EntryRules(C.res[c][m], c, m, t)

\* CircleLeadLinkMemberSet(M, L) has just been applied, L is a child of a
\* circle, and L is the one role M fills.
LeadLinkSet ==
  /\ err = "ok"
  /\ last.type = "CircleLeadLinkMemberSet"
  /\ Cardinality(LiveParents(last.roleID, GroupTimeLine)) = 1
  /\ Len(LiveEdges("rolemember", last.memberID, last.roleID, GroupTimeLine)) = 1
  /\ \A e \in FilledBy(last.memberID, GroupTimeLine) : e.y = last.roleID

\* The entry of MemberCircleEdges([M]) for the circle of the lead link role.
LeadLinkEntryIs(ord) ==
  LET C == CHOOSE p \in LiveParents(last.roleID, GroupTimeLine) : TRUE
      M == MemberCircleEdgesInternal(Store, GroupTimeLine, {last.memberID}, ord)
  IN /\ M.err = "ok"
     /\ C.id \in DOMAIN M.res[last.memberID]
     /\ M.res[last.memberID][C.id].isLeadLink
     /\ M.res[last.memberID][C.id].isCoreMember
     /\ [i \in 1..Len(M.res[last.memberID][C.id].filledRoles) |->
           M.res[last.memberID][C.id].filledRoles[i].id] = <<last.roleID>>

\* C11: in every rollup entry (circle, member), filled_roles are the child
\* roles of the circle the member fills with no_core_member = false,
\* is_lead_link holds iff one of them is a lead link, and is_core_member =
\* is_direct_member or filled_roles or rep_link non-empty; and after
\* CircleLeadLinkMemberSet(M, L), L a child of C, the entry (C, M) has
\* is_lead_link, is_core_member and filled_roles = [L].
C11_RollupEntry ==
  /\ Committed => RollupRules
  /\ LeadLinkSet => \A ord \in Orders : LeadLinkEntryIs(ord)

\* The lead link of r2 has been set and r2 lists the member as its lead link.
C11_Witness ==
  /\ LeadLinkSet
  /\ Committed
  /\ LET C == CircleMemberEdgesInternal(Store, curTl, {"r2"}, "fwd")
     IN last.memberID \in DOMAIN C.res["r2"] /\ C.res["r2"][last.memberID].isLeadLink

(***************************************************************************)
(* Three levels of circles: the root circle r1, r2 under r1, r3 under r2   *)
(* with the rep link r4, and the member m1.                                *)
(***************************************************************************)
DeepSetupEvents ==
  << [NoEvent EXCEPT !.id = -1, !.groupID = <<1>>, !.timestamp = Gap, !.type = "RoleCreated",
        !.roleID = "r1", !.roleType = "circle", !.text = "n"],
     [NoEvent EXCEPT !.id = -2, !.groupID = <<1>>, !.timestamp = Gap, !.type = "MemberCreated",
        !.aggregateID = "m1", !.text = "m1"],
     [NoEvent EXCEPT !.id = -3, !.groupID = <<2>>, !.timestamp = 2 * Gap, !.type = "CommandExecuted",
        !.roleID = "r1", !.commandType = "CircleCreateChildRole"],
     [NoEvent EXCEPT !.id = -4, !.groupID = <<2>>, !.timestamp = 2 * Gap, !.type = "RoleCreated",
        !.roleID = "r2", !.parentRoleID = <<"r1">>, !.roleType = "circle", !.text = "n"],
     [NoEvent EXCEPT !.id = -5, !.groupID = <<3>>, !.timestamp = 3 * Gap, !.type = "CommandExecuted",
        !.roleID = "r2", !.commandType = "CircleCreateChildRole"],
     [NoEvent EXCEPT !.id = -6, !.groupID = <<3>>, !.timestamp = 3 * Gap, !.type = "RoleCreated",
        !.roleID = "r3", !.parentRoleID = <<"r2">>, !.roleType = "circle", !.text = "n"],
     [NoEvent EXCEPT !.id = -7, !.groupID = <<3>>, !.timestamp = 3 * Gap, !.type = "RoleCreated",
        !.roleID = "r4", !.parentRoleID = <<"r3">>, !.roleType = "replink", !.text = "n"] >>

DeepSetUp == ApplyEvents(EmptyStore, DeepSetupEvents, "fwd")

InitDeep ==
  /\ StoreIs(DeepSetUp)
  /\ last = NoEvent
  /\ nevents = 0
  /\ pc = "returned"
  /\ snap = <<>>
  /\ txBegin = <<>>
  /\ threads = NoThreads

NextDeep ==
  \/ RoleMemberAddedWith(InOrder(MaxSteps), BOOLEAN)
  \/ RoleMemberUpdated(InOrder(MaxSteps))
  \/ RoleMemberRemoved(InOrder(MaxSteps))
  \/ CircleDirectMemberAdded(InOrder(MaxSteps))
  \/ ApplyEventsReturn

SpecDeep == InitDeep /\ [][NextDeep]_vars

\* The sub-circles of circle c whose rep link role member m fills at t.
RepLinked(c, m, t) ==
  {p.id : p \in {p \in Range(vertex["role"]) :
                   /\ LiveAt(p, t)
                   /\ c \in {q.id : q \in LiveParents(p.id, t)}
                   /\ \E k \in Range(vertex["role"]) :
                        /\ LiveAt(k, t)
                        /\ k.data.roletype = "replink"
                        /\ p \in LiveParents(k.id, t)
                        /\ \E e \in FilledBy(m, t) : e.y = k.id}}

\* Both rollups bridge a rep link filler to the grandparent circle of the rep
\* link role and to no other circle.
RepLinkRules ==
  \A t \in Timelines, ord \in Orders, m \in KnownMembers, c \in KnownRoles :
    LET M == MemberCircleEdgesInternal(Store, t, {m}, ord)
        C == CircleMemberEdgesInternal(Store, t, {c}, ord)
    IN /\ IDs(IF m \in DOMAIN C.res[c] THEN C.res[c][m].repLink ELSE <<>>) = RepLinked(c, m, t)
       /\ M.err = "ok" =>
            IDs(IF c \in DOMAIN M.res[m] THEN M.res[m][c].repLink ELSE <<>>) = RepLinked(c, m, t)

\* RoleMemberAdded(K, M, no_core_member = false) has just been applied, K is a
\* rep link role, and K is the one role M fills.
RepLinkFilled ==
  /\ err = "ok"
  /\ last.type = "RoleMemberAdded"
  /\ ~last.noCoreMember
  /\ \E k \in Range(vertex["role"]) :
       k.id = last.roleID /\ LiveAt(k, GroupTimeLine) /\ k.data.roletype = "replink"
  /\ Len(LiveEdges("rolemember", last.memberID, last.roleID, GroupTimeLine)) = 1
  /\ \A e \in FilledBy(last.memberID, GroupTimeLine) : e.y = last.roleID

\* The circle of the last event's role, and the circle of that circle.
CircleOfLast == CHOOSE p \in LiveParents(last.roleID, GroupTimeLine) : TRUE
SuperCircleOfLast == CHOOSE p \in LiveParents(CircleOfLast.id, GroupTimeLine) : TRUE

RepLinkEntryIs(ord) ==
  LET C == CircleOfLast
      P == SuperCircleOfLast
      M == last.memberID
      mc == MemberCircleEdgesInternal(Store, GroupTimeLine, {M}, ord)
      cm == CircleMemberEdgesInternal(Store, GroupTimeLine, KnownRoles, ord)
  IN /\ M \in DOMAIN cm.res[P.id]
     /\ [i \in 1..Len(cm.res[P.id][M].repLink) |-> cm.res[P.id][M].repLink[i].id] = <<C.id>>
     /\ cm.res[P.id][M].isCoreMember
     /\ mc.err = "ok"
     /\ P.id \in DOMAIN mc.res[M]
     /\ [i \in 1..Len(mc.res[M][P.id].repLink) |-> mc.res[M][P.id].repLink[i].id] = <<C.id>>
     /\ mc.res[M][P.id].isCoreMember
     \* no circle but P lists the member with a rep link
     /\ \A c \in (DOMAIN mc.res[M]) \ {P.id} : mc.res[M][c].repLink = <<>>
     /\ \A c \in KnownRoles \ {P.id} : M \in DOMAIN cm.res[c] => cm.res[c][M].repLink = <<>>

\* C12: for circles P over C where C has the rep link role K, after
\* RoleMemberAdded(K, M, no_core_member = false) M appears in
\* CircleMemberEdges([P]) with rep_link = [C] and is_core_member, P appears in
\* MemberCircleEdges([M]) with rep_link = [C], and the filler is bridged to the
\* grandparent circle of the rep link role only, never further up.
C12_RepLinkBridging ==
  /\ Committed => RepLinkRules
  /\ (RepLinkFilled /\ LiveParents(last.roleID, GroupTimeLine) # {}
        /\ LiveParents(CircleOfLast.id, GroupTimeLine) # {})
       => \A ord \in Orders : RepLinkEntryIs(ord)

\* The rep link r4 of r3 has been filled: r2 lists the member, the root does not.
C12_Witness ==
  /\ RepLinkFilled
  /\ Committed
  /\ last.roleID = "r4"
  /\ LET cm == CircleMemberEdgesInternal(Store, curTl, {"r1", "r2"}, "fwd")
     IN last.memberID \in DOMAIN cm.res["r2"] /\ last.memberID \notin DOMAIN cm.res["r1"]

(***************************************************************************)
(* no_core_member.                                                         *)
(***************************************************************************)
\* Member m is a direct member of no circle at t, fills a role, and every
\* role member edge of m has no_core_member = true.
OnlyNoCoreMember(m, t) ==
  /\ \A e \in Range(edge["circledirectmember"]) : e.x = m => ~LiveAt(e, t)
  /\ FilledBy(m, t) # {}
  /\ \A e \in FilledBy(m, t) : e.data.nocoremember

\* Member m fills a rep link role at t.
FillsRepLink(m, t) ==
  \E e \in FilledBy(m, t), k \in Range(vertex["role"]) :
    k.id = e.y /\ LiveAt(k, t) /\ k.data.roletype = "replink"

\* No rollup has member m as a core member at t, and RoleMemberEdges returns
\* every role member edge of m.
NoCoreStatus(m, t, ord) ==
  LET mc == MemberCircleEdgesInternal(Store, t, {m}, ord)
      cm == CircleMemberEdgesInternal(Store, t, KnownRoles, ord)
      rm == RoleMemberEdgesInternal(Store, t, KnownRoles, ord)
  IN /\ mc.err = "ok"
     /\ \A c \in DOMAIN mc.res[m] : ~mc.res[m][c].isCoreMember
     /\ \A c \in KnownRoles : m \in DOMAIN cm.res[c] => ~cm.res[c][m].isCoreMember
     /\ \A e \in FilledBy(m, t) :
          \E i \in 1..Len(GroupOf(rm, e.y)) :
            rm[e.y][i].v.id = m /\ rm[e.y][i].e.data.nocoremember

\* C13 as stated: a member who is a direct member of no circle and all of
\* whose role member edges have no_core_member = true, whatever the types of
\* the roles, rep links included, is a core member in no rollup, and
\* RoleMemberEdges still returns each of the edges.
C13_NoCoreMemberNeverGrants ==
  Committed =>
    \A t \in Timelines, ord \in Orders, m \in KnownMembers :
      OnlyNoCoreMember(m, t) => NoCoreStatus(m, t, ord)

\* C13, amended: the same for a member who fills no rep link role; an edge to
\* a rep link role is bridged to the grandparent circle whatever its
\* no_core_member, and makes the member a core member there.
C13_NoCoreMemberButRepLink ==
  Committed =>
    \A t \in Timelines, ord \in Orders, m \in KnownMembers :
      /\ (OnlyNoCoreMember(m, t) /\ ~FillsRepLink(m, t)) => NoCoreStatus(m, t, ord)
      /\ \A c \in KnownRoles :
           RepLinked(c, m, t) # {} =>
             LET cm == CircleMemberEdgesInternal(Store, t, {c}, ord)
             IN m \in DOMAIN cm.res[c] /\ cm.res[c][m].isCoreMember

\* The member fills the lead link role r4 with no_core_member = true only.
C13_Witness ==
  /\ Committed
  /\ OnlyNoCoreMember("m1", curTl)
  /\ ~FillsRepLink("m1", curTl)
  /\ \E e \in FilledBy("m1", curTl) : e.y = "r4"

(***************************************************************************)
(* The digests.                                                            *)
(***************************************************************************)
\* C14: the roleevent table holds at most one CircleChangesApplied digest per
\* (role id, timeline), whatever CommandExecuted events the groups contain.
C14_OneDigestPerRoleTimeline ==
  \A i, j \in 1..Len(roleevent) :
    (/\ roleevent[i].eventtype = "CircleChangesApplied"
     /\ roleevent[j].eventtype = "CircleChangesApplied"
     /\ roleevent[i].roleid = roleevent[j].roleid
     /\ roleevent[i].timeline = roleevent[j].timeline) => i = j

(***************************************************************************)
(* The integrity check.                                                    *)
(***************************************************************************)
\* The (edge class, side) pairs, in the order of the check, with an edge live
\* at t whose endpoint on that side has no live vertex at t.
Dangling(t) ==
  LET pairs == Concat([i \in 1..Len(edgeClasses) |->
                 << <<edgeClasses[i], "x">>, <<edgeClasses[i], "y">> >>])
      vcOf(p) == IF p[2] = "x" THEN edgeClassX(p[1]) ELSE edgeClassY(p[1])
      endOf(p, e) == IF p[2] = "x" THEN e.x ELSE e.y
  IN SelectSeq(pairs, LAMBDA p :
       \E e \in Range(edge[p[1]]) :
         LiveAt(e, t) /\ LiveVertices(vcOf(p), endOf(p, e), t) = <<>>)

\* C15: CheckBrokenEdges(tl), tl > 0, returns an error iff some edge live at tl
\* has an endpoint with no live vertex at tl, the error is about the class and
\* side of the first such edge, it returns success in every state without
\* such an edge, and it leaves the store as it is.
C15_CheckBrokenEdgesExact ==
  err = "ok" =>
    \A t \in Timelines :
      LET r == CheckBrokenEdges(Store, t)
      IN /\ r.err = (IF Dangling(t) # <<>> THEN "error" ELSE "ok")
         /\ Dangling(t) # <<>> => Head(brokenEdges(Store, t)) = Head(Dangling(t))
         /\ [r EXCEPT !.err = "ok"] = Store

(***************************************************************************)
(* Members, passwords and authentication.                                  *)
(***************************************************************************)
MemberSeq == <<"m1", "m2">>
Passwords == {"p1", "p2"}

\* The hash of a password, as the command that sets it stores it.
Hash(p) == CASE p = "p1" -> "h1" [] p = "p2" -> "h2" [] OTHER -> "h0"

CompareHashAndPassword(hash, p) == hash = Hash(p)

UserNameOf(id) == CASE id = "m1" -> "u1" [] id = "m2" -> "u2" [] OTHER -> "u0"
EmailOf(id) == CASE id = "m1" -> "e1" [] id = "m2" -> "e2" [] OTHER -> "e0"

FreshMember == MemberSeq[Cardinality(KnownMembers) + 1]

MemberCreated(k) ==
  /\ Cardinality(KnownMembers) < Len(MemberSeq)
  /\ \E gs \in GroupStamps(k.stamps), a \in BOOLEAN :
       Apply([Event(gs, "MemberCreated") EXCEPT
                !.aggregateID = FreshMember, !.isAdmin = a,
                !.text = UserNameOf(FreshMember), !.email = EmailOf(FreshMember)],
             "fwd", k.max)

MemberPasswordSet(k) ==
  \E gs \in GroupStamps(k.stamps), m \in KnownMembers, p \in Passwords :
    Apply([Event(gs, "MemberPasswordSet") EXCEPT !.aggregateID = m, !.text = Hash(p)],
          "fwd", k.max)

\* MemberPassword: the row of the password table, or sql.ErrNoRows.
MemberPassword(st, memberID) ==
  LET rows == SelectSeq(st.password, LAMBDA r : r.memberid = memberID) IN
  \* QueryRow scans the first row
  IF rows # <<>>
    THEN [err |-> "ok", password |-> rows[1].password]
    ELSE [err |-> "no rows", password |-> ""]

MemberInternal(st, tl, id, ord) == vertices(st, tl, "member", {id}, ord)

MemberByUserNameInternal(st, tl, userName, ord) ==
  SelectSeq(verticesAll(st, tl, "member", ord), LAMBDA v : v.data.username = userName)

MemberByEmailInternal(st, tl, email, ord) ==
  SelectSeq(verticesAll(st, tl, "member", ord), LAMBDA v : v.data.email = email)

\* The common part of the three Authenticate functions, from the members the
\* lookup has returned.
authenticate(st, members, p) ==
  IF members = <<>> THEN [err |-> "no member", member |-> <<>>]
  ELSE
    LET cur == MemberPassword(st, members[1].id) IN
    IF cur.err # "ok" THEN [err |-> cur.err, member |-> <<>>]
    ELSE IF ~CompareHashAndPassword(cur.password, p)
      THEN [err |-> "invalid password", member |-> <<>>]
    ELSE [err |-> "ok", member |-> <<members[1]>>]

AuthenticateUIDPassword(st, memberID, p, ord) ==
  IF BadTl(st.curTl) THEN [err |-> "panic", member |-> <<>>]
  ELSE authenticate(st, MemberInternal(st, st.curTl, memberID, ord), p)

AuthenticateUserNamePassword(st, userName, p, ord) ==
  IF BadTl(st.curTl) THEN [err |-> "panic", member |-> <<>>]
  ELSE authenticate(st, MemberByUserNameInternal(st, st.curTl, userName, ord), p)

AuthenticateEmailPassword(st, email, p, ord) ==
  IF BadTl(st.curTl) THEN [err |-> "panic", member |-> <<>>]
  ELSE authenticate(st, MemberByEmailInternal(st, st.curTl, email, ord), p)

NextAuth ==
  \/ MemberCreated(InOrder(MaxEvents))
  \/ MemberPasswordSet(InOrder(MaxEvents))
  \/ ApplyEventsReturn

SpecAuth == Init /\ [][NextAuth]_vars

\* What authentication must answer for the live members ms found by a key.
AuthAnswer(r, ms, p) ==
  IF ms = {} THEN r.err = "no member"
  ELSE IF \E m \in ms : [memberid |-> m.id, password |-> Hash(p)] \in Range(password)
    THEN r.err = "ok" /\ r.member # <<>> /\ r.member[1] \in ms
  ELSE r.err = "invalid password"

\* C16: authentication by member id, by user name and by email returns the
\* member iff a member with that key is live at the current timeline and the
\* password verifies against the hash stored for that member; a missing member
\* gives "no such member" and a password that does not match gives "invalid
\* password", on all three paths.
C16_Authentication ==
  (Committed /\ curTl > 0) =>
    \A i \in 1..Len(MemberSeq), p \in Passwords, ord \in Orders :
      LET id == MemberSeq[i]
          live == {m \in Range(vertex["member"]) : LiveAt(m, curTl)}
      IN /\ AuthAnswer(AuthenticateUIDPassword(Store, id, p, ord),
                       {m \in live : m.id = id}, p)
         /\ AuthAnswer(AuthenticateUserNamePassword(Store, UserNameOf(id), p, ord),
                       {m \in live : m.data.username = UserNameOf(id)}, p)
         /\ AuthAnswer(AuthenticateEmailPassword(Store, EmailOf(id), p, ord),
                       {m \in live : m.data.email = EmailOf(id)}, p)

(***************************************************************************)
(* Permissions on a circle.                                                *)
(***************************************************************************)
\* The organization of InitCircle with the lead link r5 of the root circle.
PermSetupEvents ==
  CircleSetupEvents \o
  << [NoEvent EXCEPT !.id = -7, !.groupID = <<2>>, !.timestamp = 2 * Gap, !.type = "RoleCreated",
        !.roleID = "r5", !.parentRoleID = <<"r1">>, !.roleType = "leadlink", !.text = "n"] >>

PermSetUp == ApplyEvents(EmptyStore, PermSetupEvents, "fwd")

InitPerm ==
  /\ StoreIs(PermSetUp)
  /\ last = NoEvent
  /\ nevents = 0
  /\ pc = "returned"
  /\ snap = <<>>
  /\ txBegin = <<>>
  /\ threads = NoThreads

NextPerm ==
  \/ MemberCreated(InOrder(MaxSteps))
  \/ CircleLeadLinkMemberSet(InOrder(MaxSteps))
  \/ CircleLeadLinkMemberUnset(InOrder(MaxSteps))
  \/ RoleMemberAddedWith(InOrder(MaxSteps), {FALSE})
  \/ ApplyEventsReturn

SpecPerm == InitPerm /\ [][NextPerm]_vars

\* The user names SetForceAdminMemberUserName may have been given.
ForcedAdmins == {"", "u1"}

\* CallingMemberInternal: [err, member], userid is the "userid" of the context.
CallingMemberInternal(st, curTimeLine, userid, forced, ord) ==
  IF userid = "" THEN [err |-> "error", member |-> <<>>]
  ELSE IF BadTl(curTimeLine) THEN [err |-> "panic", member |-> <<>>]
  ELSE
    LET member == MemberInternal(st, curTimeLine, userid, ord) IN
    IF member = <<>> THEN [err |-> "error", member |-> <<>>]
    ELSE [err |-> "ok",
          member |-> <<[member[1] EXCEPT !.data.isadmin =
                          @ \/ forced = member[1].data.username]>>]

memberIsLeadLink(st, curTimeLine, memberID, roleID, ord) ==
  LET childs == GroupOf(ChildRolesInternal(st, curTimeLine, {roleID}, ord), roleID)
      leadLinks == SelectSeq(childs, LAMBDA c : c.data.roletype = "leadlink")
  IN IF leadLinks = <<>> THEN FALSE
     ELSE LET roleMemberEdges ==
                GroupOf(RoleMemberEdgesInternal(st, curTimeLine, {leadLinks[1].id}, ord),
                        leadLinks[1].id)
          IN IF roleMemberEdges = <<>> THEN FALSE
             ELSE roleMemberEdges[1].v.id = memberID

\* The permissions of a caller who manages the circle or not, on the root
\* circle or not.
Permissions(manages, root) ==
  [assignChildCircleLeadLink |-> manages, assignCircleCoreRoles |-> manages,
   assignChildRoleMembers |-> manages, assignCircleDirectMembers |-> manages,
   manageChildRoles |-> manages, manageRoleAdditionalContent |-> manages,
   assignRootCircleLeadLink |-> manages /\ root, manageRootCircle |-> manages /\ root]

\* A variant of MemberCirclePermissions that does not read the parent of the
\* circle: every managed circle is treated as the root circle.
MemberCirclePermissionsNoParent(st, tl, userid, forced, roleID, ord) ==
  LET calling == CallingMemberInternal(st, tl, userid, forced, ord) IN
  IF calling.err # "ok" THEN [err |-> calling.err, cp |-> <<>>]
  ELSE
    LET role == RoleInternal(st, tl, roleID, ord) IN
    IF role = <<>> THEN [err |-> "error", cp |-> <<>>]
    ELSE IF role[1].data.roletype # "circle" THEN [err |-> "ok", cp |-> <<>>]
    ELSE
      LET isLeadLink == memberIsLeadLink(st, tl, calling.member[1].id, roleID, ord)
      IN [err |-> "ok",
          cp |-> <<Permissions(calling.member[1].data.isadmin \/ isLeadLink, TRUE)>>]

\* MemberCirclePermissions: [err, cp], cp is <<>> for nil.
MemberCirclePermissions(st, tl, userid, forced, roleID, ord) ==
  LET calling == CallingMemberInternal(st, tl, userid, forced, ord) IN
  IF calling.err # "ok" THEN [err |-> calling.err, cp |-> <<>>]
  ELSE
    LET role == RoleInternal(st, tl, roleID, ord) IN
    IF role = <<>> THEN [err |-> "error", cp |-> <<>>]
    ELSE IF role[1].data.roletype # "circle" THEN [err |-> "ok", cp |-> <<>>]
    ELSE
      LET prole == Lookup(RoleParentInternal(st, tl, {roleID}, ord), roleID)
          isLeadLink == memberIsLeadLink(st, tl, calling.member[1].id, roleID, ord)
      IN [err |-> "ok",
          cp |-> <<Permissions(calling.member[1].data.isadmin \/ isLeadLink, prole = <<>>)>>]

\* The caller fills a lead link role of the circle at t.
FillsLeadLinkOf(circle, caller, t) ==
  \E l \in Range(vertex["role"]) :
    /\ LiveAt(l, t)
    /\ l.data.roletype = "leadlink"
    /\ circle \in {p.id : p \in LiveParents(l.id, t)}
    /\ \E e \in FilledBy(caller, t) : e.y = l.id

\* What MemberCirclePermissions must return to a live caller for a live role.
PermissionsAre(t, caller, forced, role, ord) ==
  LET r == MemberCirclePermissions(Store, t, caller.id, forced, role.id, ord)
      admin == caller.data.isadmin \/ forced = caller.data.username
  IN /\ r.err = "ok"
     /\ IF role.data.roletype # "circle" THEN r.cp = <<>>
        ELSE r.cp = <<Permissions(admin \/ FillsLeadLinkOf(role.id, caller.id, t),
                                  LiveParents(role.id, t) = {})>>

\* At t no lead link role has two members.
OneLeadLinkMember(t) ==
  \A l \in Range(vertex["role"]) :
    (LiveAt(l, t) /\ l.data.roletype = "leadlink") =>
      Cardinality({e.x : e \in {e \in Range(edge["rolemember"]) : e.y = l.id /\ LiveAt(e, t)}}) <= 1

TensionSeq == <<"t1", "t2">>
KnownTensions == {t.id : t \in Range(vertex["tension"])}
FreshTension == TensionSeq[Cardinality(KnownTensions) + 1]

TensionCreated(k) ==
  /\ Cardinality(KnownTensions) < Len(TensionSeq)
  /\ \E gs \in GroupStamps(k.stamps), m \in KnownMembers, r \in {<<>>, <<"r2">>} :
       Apply([Event(gs, "TensionCreated") EXCEPT
                !.aggregateID = FreshTension, !.memberID = m, !.parentRoleID = r,
                !.text = "n"], "fwd", k.max)

TensionClosed(k) ==
  \E gs \in GroupStamps(k.stamps), t \in KnownTensions :
    Apply([Event(gs, "TensionClosed") EXCEPT !.aggregateID = t, !.text = "done"],
          "fwd", k.max)

NextTension ==
  \/ MemberCreated(InOrder(MaxSteps))
  \/ TensionCreated(InOrder(MaxSteps))
  \/ TensionClosed(InOrder(MaxSteps))
  \/ ApplyEventsReturn

SpecTension == InitCircle /\ [][NextTension]_vars

\* member id -> its tensions
MemberTensionsInternal(st, tl, membersIDs, ord) ==
  LET g == scanGroups(connectedVertices(st, tl, Range(membersIDs), "membertension", "in", ord))
  IN [k \in DOMAIN g |-> [i \in 1..Len(g[k]) |-> g[k][i].v]]

\* MemberTensions: [err, res], res is <<>> for nil and <<map>> otherwise.  The
\* loop over membersIDs leaves at its first element, by break or by return.
MemberTensions(st, tl, userid, forced, membersIDs, ord) ==
  LET calling == CallingMemberInternal(st, tl, userid, forced, ord) IN
  IF calling.err # "ok" THEN [err |-> calling.err, res |-> <<>>]
  ELSE IF membersIDs # <<>> /\ calling.member[1].id # membersIDs[1]
    THEN [err |-> "ok", res |-> <<>>]
  ELSE [err |-> "ok", res |-> <<MemberTensionsInternal(st, tl, membersIDs, ord)>>]

\* The lists of member ids a caller may pass.
MaxIDs == 2
IDLists == UNION {[1..n -> KnownMembers] : n \in 0..MaxIDs}

\* C18: MemberTensions never discloses the tensions of another member: for a
\* list that holds an id different from the caller's, at any position, it
\* returns absent without error, and it returns tensions only for the
\* caller's own id.
C18_OwnTensionsOnly ==
  Committed =>
    \A t \in Timelines, ord \in Orders, ids \in IDLists :
      \A caller \in {m \in Range(vertex["member"]) : LiveAt(m, t)} :
        LET r == MemberTensions(Store, t, caller.id, "", ids, ord) IN
        /\ (\E i \in DOMAIN ids : ids[i] # caller.id) => r = [err |-> "ok", res |-> <<>>]
        /\ r.res # <<>> => DOMAIN r.res[1] \subseteq {caller.id}

(***************************************************************************)
(* Creating a role under a circle without a digest.                        *)
(***************************************************************************)
\* The rows of role id that no event has closed.
OpenRoles(id) == {r \in Range(vertex["role"]) : r.id = id /\ r.end_tl = <<>>}

\* This step calls ApplyEvent with RoleCreated of a role that is not a core
\* role, under a parent that is live.
CreatesUnderParent ==
  /\ nevents' = nevents + 1
  /\ last'.type = "RoleCreated"
  /\ last'.roleType \in {"normal", "circle"}
  /\ last'.parentRoleID # <<>>
  /\ Cardinality(OpenRoles(last'.parentRoleID[1])) = 1

\* C19: RoleCreated for a role of type normal or circle with a parent is
\* applied in any group, with or without a CircleChangesApplied digest of the
\* parent at that timeline: the role is live with depth = parent.depth + 1,
\* and without a digest no digest is created or modified.
C19_RoleCreatedWithoutDigest ==
  [][CreatesUnderParent =>
       LET p == CHOOSE r \in OpenRoles(last'.parentRoleID[1]) : TRUE IN
       /\ err' = "ok"
       /\ \E r \in Range(vertex'["role"]) :
            /\ r.id = last'.roleID
            /\ r.start_tl = curTl'
            /\ r.end_tl = <<>>
            /\ r.data.depth = p.data.depth + 1
       /\ (~\E d \in Range(roleevent) : d.roleid = p.id /\ d.timeline = curTl')
            => roleevent' = roleevent]_vars

(***************************************************************************)
(* Moving a role.                                                          *)
(***************************************************************************)
\* The rolerole edge rows of store st that end at role id and are live at t.
ParentEdges(st, id, t) == SelectSeq(st.edge["rolerole"], LAMBDA e : e.y = id /\ LiveAt(e, t))

\* The ids of the parents of role id at t, and its depths there.
ParentIDs(st, id, t) == {ParentEdges(st, id, t)[i].x : i \in 1..Len(ParentEdges(st, id, t))}
Depths(st, id, t) ==
  {r.data.depth : r \in {r \in Range(st.vertex["role"]) : r.id = id /\ LiveAt(r, t)}}

\* This step applies RoleChangedParent(A, B) at curTl' to a role A whose one
\* parent just before that timeline is another role R.
Moved ==
  /\ nevents' = nevents + 1
  /\ err' = "ok"
  /\ last'.type = "RoleChangedParent"
  /\ last'.parentRoleID # <<>>
  /\ Cardinality(ParentIDs(Store, last'.roleID, curTl' - 1)) = 1
  /\ last'.parentRoleID[1] \notin ParentIDs(Store, last'.roleID, curTl' - 1)

\* C20: after RoleChangedParent(A, B) is applied at tl to a role A whose
\* parent at tl - 1 was R, the only live parent edge of A at tl is (B, A),
\* ChildRoles(R) lacks A, ChildRoles(B) holds A, A.depth = B.depth + 1 and
\* RoleParents(A) starts at B and ends at the root; at every earlier timeline
\* A has the parent and the depth it had.
C20_RoleChangedParent ==
  [][Moved =>
       LET A == last'.roleID
           B == last'.parentRoleID[1]
           R == CHOOSE r \in ParentIDs(Store, last'.roleID, curTl' - 1) : TRUE
       IN /\ Len(ParentEdges(Store', A, curTl')) = 1
          /\ ParentIDs(Store', A, curTl') = {B}
          /\ \A ord \in Orders :
               LET childs == ChildRolesInternal(Store', curTl', {R, B}, ord)
                   role == RoleInternal(Store', curTl', A, ord)
                   prole == RoleInternal(Store', curTl', B, ord)
                   out == RoleParents(Store', curTl', {A}, ord)
               IN /\ A \notin IDs(GroupOf(childs, R))
                  /\ A \in IDs(GroupOf(childs, B))
                  /\ role # <<>> /\ prole # <<>>
                  /\ role[1].data.depth = prole[1].data.depth + 1
                  /\ out.err = "ok"
                  /\ out.res[A] # <<>>
                  /\ out.res[A][1].id = B
                  /\ ParentIDs(Store', out.res[A][Len(out.res[A])].id, curTl') = {}
          /\ \A t \in {t \in Timelines : t < curTl'} :
               /\ ParentIDs(Store', A, t) = ParentIDs(Store, A, t)
               /\ Depths(Store', A, t) = Depths(Store, A, t)]_vars

(***************************************************************************)
(* The root role and the lookups before the first timeline.                *)
(***************************************************************************)
\* RootRoleInternal: [err, res], res is <<>> for nil.
RootRoleInternal(st, tl, ord) ==
  IF BadTl(tl) THEN [err |-> "panic", res |-> <<>>]
  ELSE
    LET roles == SelectSeq(verticesAll(st, tl, "role", ord), LAMBDA r : r.data.depth = 0)
    IN IF Len(roles) = 0 THEN [err |-> "ok", res |-> <<>>]
       ELSE IF Len(roles) > 1 THEN [err |-> "error", res |-> <<>>]
       ELSE [err |-> "ok", res |-> <<roles[1]>>]

\* Role: [err, res], res is <<>> for nil.
Role(st, tl, id, ord) ==
  IF BadTl(tl) THEN [err |-> "panic", res |-> <<>>]
  ELSE [err |-> "ok", res |-> RoleInternal(st, tl, id, ord)]

\* The first event of the stream has created a role without a parent.
RootCreated ==
  /\ nevents = 1
  /\ err = "ok"
  /\ last.type = "RoleCreated"
  /\ last.parentRoleID = <<>>

\* C21 as stated: after RoleCreated(R, no parent) is applied in the first
\* group, RootRole at the timeline of that group returns R with depth 0, and
\* Role(R) at timeline 0 returns absent, neither an error nor an abort.
C21_RootRoleAndAbsent ==
  RootCreated =>
    \A ord \in Orders :
      LET root == RootRoleInternal(Store, curTl, ord) IN
      /\ root.err = "ok" /\ root.res # <<>>
      /\ root.res[1].id = last.roleID /\ root.res[1].data.depth = 0
      /\ Role(Store, 0, last.roleID, ord) = [err |-> "ok", res |-> <<>>]

\* C21, amended: RootRole returns R with depth 0; Role(R) at timeline 0 aborts,
\* and Role(R) at a timeline above 0 and before the first one returns absent.
C21_RootRoleAndAbort ==
  RootCreated =>
    \A ord \in Orders :
      LET root == RootRoleInternal(Store, curTl, ord) IN
      /\ root.err = "ok" /\ root.res # <<>>
      /\ root.res[1].id = last.roleID /\ root.res[1].data.depth = 0
      /\ Role(Store, 0, last.roleID, ord) = [err |-> "panic", res |-> <<>>]
      /\ \A t \in 1..(curTl - 1) :
           Role(Store, t, last.roleID, ord) = [err |-> "ok", res |-> <<>>]

\* The root role has been created at a timeline above 1 and committed.
C21_Witness ==
  /\ RootCreated
  /\ pc = "returned"
  /\ curTl > 1
  /\ LiveVertices("role", last.roleID, curTl) # <<>>

(***************************************************************************)
(* Timelines that are no timelines.                                        *)
(***************************************************************************)
\* The timeline numbers at and below 0 a caller may pass: MaxBelow of them
\* are below 0.
MaxBelow == 1
MinTl == 0 - MaxBelow
NoTimelines == MinTl..0

Aborted == [err |-> "panic", res |-> <<>>]

\* The rows of the store.
Rows ==
  UNION {Range(vertex[vc]) : vc \in VertexClasses}
  \cup UNION {Range(edge[ec]) : ec \in EdgeClassNames}

UnknownTypes == {"", "MemberMatchUIDSet"}

\* An event without a group id, of any type and with any payload.
UngroupedOfType(k) ==
  \E t \in EventTypes \cup UnknownTypes, r \in RoleIDs :
    Apply([NoEvent EXCEPT !.type = t, !.timestamp = curTl + Gap, !.roleID = r,
             !.aggregateID = "m1", !.memberID = "m1", !.parentRoleID = <<"r1">>,
             !.roleType = "circle", !.text = "n2"], "fwd", k.max)

\* An event of a group, of a type the applier has no case for.
UnknownEvent(k) ==
  \E gs \in GroupStamps(k.stamps), t \in UnknownTypes, r \in KnownRoles :
    Apply([Event(gs, t) EXCEPT !.roleID = r], "fwd", k.max)

NextTypes ==
  \/ UngroupedOfType(InOrder(MaxSteps))
  \/ UnknownEvent(InOrder(MaxSteps))
  \/ RoleUpdated(InOrder(MaxSteps))
  \/ RoleDeleted(InOrder(MaxSteps))
  \/ ApplyEventsReturn

SpecTypes == InitSetUp /\ [][NextTypes]_vars

\* C23: ApplyEvent on an event without a group id returns success and leaves
\* the timeline, vertex, edge, roleevent and password tables and the cached
\* current timeline unchanged, whatever the type and the payload of the event.
C23_UngroupedSkipped ==
  [][(nevents' = nevents + 1 /\ last'.groupID = <<>>) =>
       /\ err' = "ok"
       /\ UNCHANGED <<timeline, vertex, edge, roleevent, password, curTl>>]_vars

\* ApplyEvent was last called, without a group id, with the deletion of a
\* live role.
C23_Witness ==
  /\ pc = "loop"
  /\ last.groupID = <<>>
  /\ last.type = "RoleDeleted"
  /\ LiveVertices("role", last.roleID, curTl) # <<>>

\* C24: ApplyEvent on an event with a group id and a type the applier does
\* not know aborts; it never returns success, so no such event is skipped.
C24_UnknownTypeFatal ==
  [][(nevents' = nevents + 1 /\ last'.groupID # <<>> /\ last'.type \notin EventTypes) =>
       err' = "panic"]_vars

\* ApplyEvent was last called with an event of a group and of unknown type.
C24_Witness ==
  /\ nevents > 0
  /\ last.groupID # <<>>
  /\ last.type \in UnknownTypes
  /\ err = "panic"

(***************************************************************************)
(* The transaction around a group.  The caller of ApplyEvents owns it: it  *)
(* opens one transaction per group, binds a DBService to it, and rolls it  *)
(* back when ApplyEvents fails.                                            *)
(***************************************************************************)
\* A variant of rollback that undoes the graph rows and keeps the timeline.
rollbackRows(st, begin) ==
  [begin EXCEPT !.timeline = st.timeline, !.err = "ok"]

\* The rollback of the transaction: the tables are those of its begin.
rollback(st, begin) == [begin EXCEPT !.err = "ok"]

\* NewDBService: the cached current timeline is read from the store.
NewDBService(st) == [st EXCEPT !.curTl = curTimeLineFromDB(st)]

\* The caller opens a transaction on the committed store.
Begin ==
  /\ err = "ok"
  /\ pc = "returned"
  /\ txBegin # <<Store>>
  /\ txBegin' = <<Store>>
  /\ UNCHANGED <<timeline, vertex, edge, roleevent, password, curTl, resolution, err,
                 last, nevents, pc, snap, threads>>

\* Step A of ApplyEvents inside the open transaction, which holds one group:
\* the first event opens a group, the later ones belong to it.
InTx(A) ==
  /\ txBegin # <<>>
  /\ pc = "returned" => txBegin = <<Store>>
  /\ A
  /\ last'.groupID # <<>>
  /\ IF pc = "returned"
       THEN TimeLineForGroupID(Store, last'.groupID[1]) = <<>>
       ELSE last'.groupID = last.groupID

\* ApplyEvents has failed: the caller rolls the transaction back and binds a
\* new DBService to the next one.
Rollback ==
  /\ err # "ok"
  /\ txBegin # <<>>
  /\ Becomes(NewDBService(rollback(Store, txBegin[1])))
  /\ pc' = "returned"
  /\ UNCHANGED <<resolution, last, nevents, snap, txBegin, threads>>

NextTx ==
  \/ Begin
  \/ InTx(CommandExecuted(InOrder(MaxSteps)))
  \/ InTx(RoleUpdated(InOrder(MaxSteps)))
  \/ InTx(RoleDeleted(InOrder(MaxSteps)))
  \/ InTx(MemberPasswordSet(InOrder(MaxSteps)))
  \/ InTx(UnknownEvent(InOrder(MaxSteps)))
  \/ InTx(ApplyEventsReturn)
  \/ Rollback

SpecTx == InitSetUp /\ [][NextTx]_vars

\* The group of the open transaction has written: a table differs from what
\* it was at the begin.
Written25 ==
  /\ txBegin # <<>>
  /\ \/ timeline # txBegin[1].timeline
     \/ vertex # txBegin[1].vertex
     \/ edge # txBegin[1].edge
     \/ roleevent # txBegin[1].roleevent
     \/ password # txBegin[1].password

C26_RoleTree ==
  Committed =>
    \A t \in Timelines, id \in RoleIDs : Len(ParentEdges(Store, id, t)) <= 1

(***************************************************************************)
(* The events of a role, newest first.                                     *)
(***************************************************************************)
MaxFetchSize == 25

\* A store with many digests: after the set up, n groups with a child role
\* command on r1 each, the first m of them with one on r2 as well.
MaxDigests == 26
MaxOther == 2

DigestOf(i, role) ==
  NewRoleEventCircleChangesApplied((2 + i) * Gap,
    IF role = "r1" THEN -(10 + 2 * i) ELSE -(11 + 2 * i), role, "")

WithDigests(n, m) ==
  [SetUp EXCEPT
     !.timeline = @ \cup {[timestamp |-> (2 + i) * Gap, groupid |-> 2 + i] : i \in 1..n},
     !.roleevent = @ \o [i \in 1..n |-> DigestOf(i, "r1")]
                     \o [i \in 1..(IF m < n THEN m ELSE n) |-> DigestOf(i, "r2")],
     !.curTl = (2 + n) * Gap]

InitDigests ==
  /\ \E n \in {0, 1} \cup ((MaxDigests - 2)..MaxDigests), m \in 0..MaxOther :
       StoreIs(WithDigests(n, m))
  /\ last = NoEvent
  /\ nevents = 0
  /\ pc = "returned"
  /\ snap = <<>>
  /\ txBegin = <<>>
  /\ threads = NoThreads

\* One more child role command on a circle.
CircleUpdateChildRole(k) ==
  \E gs \in GroupStamps(k.stamps), r \in {"r1", "r2"} :
    Apply([Event(gs, "CommandExecuted") EXCEPT
             !.roleID = r, !.commandType = "CircleUpdateChildRole"], "fwd", k.max)

NextDigests ==
  \/ CircleUpdateChildRole(InOrder(MaxSteps))
  \/ ApplyEventsReturn

SpecDigests == InitDigests /\ [][NextDigests]_vars

\* "order by timeline desc": the rows by descending timeline; rows of one
\* timeline stay in the order the store returns them.
SortDesc(rows) ==
  LET n == Len(rows)
      rank == [i \in 1..n |->
                 Cardinality({j \in 1..n :
                   \/ rows[j].timeline > rows[i].timeline
                   \/ rows[j].timeline = rows[i].timeline /\ j < i}) + 1]
  IN [k \in 1..n |-> rows[CHOOSE i \in 1..n : rank[i] = k]]

\* A variant of RoleEventsInternal in which start overrides after.
RoleEventsInternalStartWins(st, roleID, first, start, after, ord) ==
  LET condition(e) ==
        IF start # 0 THEN e.timeline <= start
        ELSE IF after # 0 THEN e.timeline < after
        ELSE TRUE
      rows == SortDesc(Ordered(SelectSeq(st.roleevent,
                LAMBDA e : e.roleid = roleID /\ condition(e)), ord))
  IN IF first # 0 /\ first < Len(rows) THEN SubSeq(rows, 1, first) ELSE rows

RoleEventsInternal(st, roleID, first, start, after, ord) ==
  LET condition(e) ==
        IF after # 0 THEN e.timeline < after
        ELSE IF start # 0 THEN e.timeline <= start
        ELSE TRUE
      rows == SortDesc(Ordered(SelectSeq(st.roleevent,
                LAMBDA e : e.roleid = roleID /\ condition(e)), ord))
  IN IF first # 0 /\ first < Len(rows) THEN SubSeq(rows, 1, first) ELSE rows

\* RoleEvents: the events and whether there are more.
roleEventsPage(roleEvents, first) ==
  [res |-> SubSeq(roleEvents, 1, IF Len(roleEvents) > first THEN first ELSE Len(roleEvents)),
   hasMore |-> Len(roleEvents) > first]

RoleEvents(st, roleID, first, start, after, ord) ==
  IF first = 0
    THEN roleEventsPage(RoleEventsInternal(st, roleID, MaxFetchSize + 1, start, after, ord),
                        MaxFetchSize)
    ELSE roleEventsPage(RoleEventsInternal(st, roleID, first + 1, start, after, ord), first)

\* The page sizes and the timeline bounds a caller passes.
Firsts == {0, 1, 2, MaxFetchSize + 1}
QueryBounds == {0, 2 * Gap, 2 * Gap + 1, curTl}

\* The events of a role the bounds select: after is exclusive and overrides
\* start, start is inclusive, 0 is no bound.
Matching(roleID, start, after) ==
  SelectSeq(roleevent,
    LAMBDA e : /\ e.roleid = roleID
               /\ IF after # 0 THEN e.timeline < after
                  ELSE IF start # 0 THEN e.timeline <= start ELSE TRUE)

PageIs(out, matching, limit) ==
  /\ Len(out.res) = (IF Len(matching) > limit THEN limit ELSE Len(matching))
  /\ \A i \in 1..Len(out.res) : out.res[i] \in Range(matching)
  /\ \A i, j \in 1..Len(out.res) :
       /\ i < j => out.res[i].timeline >= out.res[j].timeline
       /\ i # j => out.res[i] # out.res[j]
  \* the events left out are not newer than the events returned
  /\ \A e \in Range(matching) \ Range(out.res) :
       \A i \in 1..Len(out.res) : e.timeline <= out.res[i].timeline
  /\ out.hasMore = (Len(matching) > limit)

\* C27: RoleEvents(role, first, start, after) returns only events of the role,
\* by descending timeline, at most first of them (25 when first = 0), with
\* has_more true iff more matching events exist; start alone bounds the
\* timeline inclusively, after alone exclusively, and after overrides start.
C27_RoleEventsPage ==
  Committed =>
    \A roleID \in {"r1", "r2"}, first \in Firsts, start \in QueryBounds, after \in QueryBounds,
       ord \in Orders :
      PageIs(RoleEvents(Store, roleID, first, start, after, ord),
             Matching(roleID, start, after),
             IF first = 0 THEN MaxFetchSize ELSE first)

\* r1 has more than 25 events and r2 has events, at several timelines.
C27_Witness ==
  /\ Committed
  /\ nevents > 0
  /\ Len(Matching("r1", 0, 0)) > MaxFetchSize
  /\ Len(Matching("r2", 0, 0)) > 1
  /\ RoleEvents(Store, "r1", 0, 0, 0, "fwd").hasMore
  /\ Len(Matching("r1", curTl, 2 * Gap + 1)) = 1

(***************************************************************************)
(* The change type of a child in the digest of its parent circle.          *)
(***************************************************************************)
\* The digests of circle p at timeline tl in store st.
DigestsOf(st, p, tl) ==
  SelectSeq(st.roleevent,
    LAMBDA d : d.roleid = p /\ d.timeline = tl /\ d.eventtype = "CircleChangesApplied")

\* The change type of child in the digest of p at tl: <<>> when it has no entry.
ChangeTypeIn(st, p, tl, child) ==
  LET d == DigestsOf(st, p, tl)[1] IN
  IF child \in DOMAIN d.data.changedRoles
    THEN <<d.data.changedRoles[child].changeType>>
    ELSE <<>>

\* This step calls ApplyEvent, on a store without error, with an event of
\* type t on a role whose one parent circle at the timeline of the event has
\* one digest there; for RoleCreated the parent is the one the event names.
DigestStep(t) ==
  /\ nevents' = nevents + 1
  /\ last'.type = t
  /\ last'.groupID # <<>>
  /\ LET tl == EventTimeLine(Store, last')
         parents == IF t = "RoleCreated"
                      THEN {last'.parentRoleID[i] : i \in DOMAIN last'.parentRoleID}
                      ELSE ParentIDs(Store, last'.roleID, tl)
     IN /\ Cardinality(parents) = 1
        /\ \A p \in parents :
             /\ Len(DigestsOf(Store, p, tl)) = 1
             /\ Cardinality(OpenRoles(p)) = 1

\* The parent circle of DigestStep.
DigestParent ==
  IF last'.type = "RoleCreated" THEN last'.parentRoleID[1]
  ELSE CHOOSE p \in ParentIDs(Store, last'.roleID, EventTimeLine(Store, last')) : TRUE

\* C28: within one commit, the change type of a child in the digest of its
\* parent circle follows this machine: RoleCreated sets it to New and aborts
\* when there is an entry already; RoleUpdated makes an entry Updated when
\* there is none and leaves the change type of an entry alone; RoleDeleted
\* removes an entry that is New and sets Deleted otherwise.
C28_ChangeTypeMachine ==
  [][/\ (DigestStep("RoleCreated") /\ last'.roleType \in {"normal", "circle"}) =>
          LET tl == EventTimeLine(Store, last')
              before == ChangeTypeIn(Store, DigestParent, tl, last'.roleID)
          IN IF before # <<>> THEN err' = "panic"
             ELSE /\ err' = "ok"
                  /\ ChangeTypeIn(Store', DigestParent, tl, last'.roleID) = <<"New">>
     /\ DigestStep("RoleUpdated") =>
          LET tl == EventTimeLine(Store, last')
              before == ChangeTypeIn(Store, DigestParent, tl, last'.roleID)
          IN /\ err' = "ok"
             /\ ChangeTypeIn(Store', DigestParent, tl, last'.roleID) =
                  (IF before = <<>> THEN <<"Updated">> ELSE before)
     /\ DigestStep("RoleDeleted") =>
          LET tl == EventTimeLine(Store, last')
              before == ChangeTypeIn(Store, DigestParent, tl, last'.roleID)
          IN /\ err' = "ok"
             /\ ChangeTypeIn(Store', DigestParent, tl, last'.roleID) =
                  (IF before = <<"New">> THEN <<>> ELSE <<"Deleted">>)]_vars

(***************************************************************************)
(* Moves between circles that have digests.                                *)
(***************************************************************************)
NextMove ==
  \/ CircleUpdateChildRole(InOrder(MaxSteps))
  \/ RoleChangedParent(InOrder(MaxSteps))
  \/ ApplyEventsReturn

SpecMove == InitSetUp /\ [][NextMove]_vars

\* The timeline of the group of the event of this step.
MoveTl == EventTimeLine(Store, last')

\* The parents the moved role had at the timeline before the group's.
PreviousParents == ParentIDs(Store, last'.roleID, MoveTl - 1)
PreviousParent == CHOOSE p \in PreviousParents : TRUE

\* This step applies RoleChangedParent(child, previous -> new), new being
\* neither child nor a role below it, child having one parent, previous, at
\* the timeline before the group's, and neither parent having more than the
\* one digest a circle may have at a timeline.
MoveStep ==
  /\ nevents' = nevents + 1
  /\ last'.type = "RoleChangedParent"
  /\ last'.groupID # <<>>
  /\ last'.parentRoleID # <<>>
  /\ last'.parentRoleID[1] \notin
       Descendants(Store, MoveTl, {last'.roleID}, Cardinality(RoleIDs))
  /\ MoveTl - 1 > 0
  /\ Cardinality(PreviousParents) = 1
  /\ \A p \in PreviousParents \cup {last'.parentRoleID[1]} :
       Len(DigestsOf(Store, p, MoveTl)) <= 1

\* The digest of circle p at the timeline of the move, before and after.
DigestBefore(p) == DigestsOf(Store, p, MoveTl)[1].data
DigestAfter(p) == DigestsOf(Store', p, MoveTl)[1].data

\* After the step the entry of the moved role in the digest of p carries the
\* move, and has the change type it had, Updated when it is new.
MovedRecorded(p) ==
  LET child == last'.roleID
      before == ChangeTypeIn(Store, p, MoveTl, child)
  IN /\ child \in DOMAIN DigestAfter(p).changedRoles
     /\ DigestAfter(p).changedRoles[child].moved = <<PreviousParent, last'.parentRoleID[1]>>
     /\ DigestAfter(p).changedRoles[child].changeType =
          (IF before = <<>> THEN "Updated" ELSE before[1])

\* The list of field f ("rolesMovedToParent" or "rolesMovedFromParent") of
\* the entry of role r in digest data d: empty when r has no entry.
MovedList(d, r, f) ==
  IF r \in DOMAIN d.changedRoles THEN d.changedRoles[r][f] ELSE <<>>

DigestTypes ==
  {"CommandExecuted", "RoleCreated", "RoleDeleted", "RoleUpdated", "RoleChangedParent"}

\* An event of a group, of a type whose case of the digest pass is empty.
OtherEvent(k) ==
  \E gs \in GroupStamps(k.stamps), t \in EventTypes \ DigestTypes, r \in {"r3"} :
    Apply([Event(gs, t) EXCEPT
             !.roleID = r, !.memberID = "m1",
             !.aggregateID = IF t \in {"TensionCreated", "TensionUpdated",
                                       "TensionRoleChanged", "TensionClosed"}
                               THEN "t1" ELSE "m1",
             !.vertexID = "d1", !.text = "n2"], "fwd", k.max)

NextOther ==
  \/ OtherEvent(InOrder(MaxSteps))
  \/ CircleUpdateChildRole(InOrder(MaxSteps))
  \/ RoleUpdated(InOrder(MaxSteps))
  \/ ApplyEventsReturn

SpecOther == InitSetUp /\ [][NextOther]_vars

\* C31: applying an event of a group that is none of CommandExecuted,
\* RoleCreated, RoleDeleted, RoleUpdated and RoleChangedParent leaves the
\* roleevent table unchanged, and so does RoleUpdated on a role that has no
\* parent at the timeline of the event.
C31_NoDigestWritten ==
  [][(/\ nevents' = nevents + 1
      /\ last'.groupID # <<>>
      /\ \/ last'.type \in EventTypes \ DigestTypes
         \/ /\ last'.type = "RoleUpdated"
            /\ ParentIDs(Store, last'.roleID, EventTimeLine(Store, last')) = {})
     => roleevent' = roleevent]_vars

\* A tension has been created, with success, in a group where r1 has a digest.
C31_Witness ==
  /\ err = "ok"
  /\ last.type = "TensionCreated"
  /\ KnownTensions = {"t1"}
  /\ Len(DigestsOf(Store, "r1", curTl)) = 1

(***************************************************************************)
(* Moving a role that has roles below it.                                  *)
(***************************************************************************)
NextCascade ==
  \/ RoleUpdated(InOrder(MaxSteps))
  \/ RoleChangedParent(InOrder(MaxSteps))
  \/ ApplyEventsReturn

SpecCascade == InitDeep /\ [][NextCascade]_vars

\* The rows of role id in store st that are live at t.
LiveVersions(st, id, t) ==
  SelectSeq(st.vertex["role"], LAMBDA r : r.id = id /\ LiveAt(r, t))

\* The roles below role id at t in store st, id included.
Subtree(st, id, t) == Descendants(st, t, {id}, Cardinality(KnownRoles))

\* This step applies, with success, RoleChangedParent(B, D) to a store where
\* every role has one live version and at most one live parent.
MovedUnder ==
  /\ nevents' = nevents + 1
  /\ err' = "ok"
  /\ last'.type = "RoleChangedParent"
  /\ last'.parentRoleID # <<>>
  /\ \A id \in KnownRoles :
       /\ Len(LiveVersions(Store, id, curTl')) = 1
       /\ Len(ParentEdges(Store, id, curTl')) <= 1

\* C32: after RoleChangedParent(B, D) is applied at tl, B.depth = D.depth + 1,
\* every role below B at tl has one live version at tl, with the depth of its
\* parent plus one, and the roles outside the subtree of B keep their depth.
C32_DepthCascade ==
  [][MovedUnder =>
       LET B == last'.roleID
           D == last'.parentRoleID[1]
           tl == curTl'
       IN /\ \A d \in Depths(Store', B, tl) : Depths(Store', D, tl) = {d - 1}
          /\ \A X \in Subtree(Store', B, tl) \ {B} :
               /\ Len(LiveVersions(Store', X, tl)) = 1
               /\ \A P \in ParentIDs(Store', X, tl) :
                    Depths(Store', X, tl) = {d + 1 : d \in Depths(Store', P, tl)}
          /\ \A X \in KnownRoles \ Subtree(Store', B, tl) :
               Depths(Store', X, tl) = Depths(Store, X, tl)]_vars

(***************************************************************************)
(* Termination of the walks over the role tree.                            *)
(***************************************************************************)
\* No role of store st is below itself at t.
Acyclic(st, t) ==
  \A r \in KnownRoles :
    r \notin Descendants(st, t, ChildIDs(st, t, {r}), Cardinality(KnownRoles))

\* The live role to role edges of store st form a tree at t.
IsTree(st, t) ==
  /\ Acyclic(st, t)
  /\ \A r \in KnownRoles : Len(ParentEdges(st, r, t)) <= 1

\* C33: RoleChangedParent(role, new parent), applied to a store whose live
\* role to role edges form a tree, ends for every role and every new parent
\* among the live roles and leaves the live role to role edges acyclic, and
\* RoleParents ends on the store it leaves.
C33_MoveTerminates ==
  [][(/\ nevents' = nevents + 1
      /\ last'.type = "RoleChangedParent"
      /\ last'.parentRoleID # <<>>
      /\ {last'.roleID, last'.parentRoleID[1]} \subseteq
           {r \in KnownRoles : Len(LiveVersions(Store, r, EventTimeLine(Store, last'))) = 1}
      /\ IsTree(Store, EventTimeLine(Store, last')))
     => /\ err' # "crash"
        /\ Acyclic(Store', curTl')
        /\ \A id \in KnownRoles, ord \in Orders :
             RoleParents(Store', curTl', {id}, ord).err # "crash"]_vars

(***************************************************************************)
(* The lead link of a circle.                                              *)
(***************************************************************************)
\* The lead link roles that are children of circle at t, and the members that
\* fill role l at t.
LeadLinksOf(circle, t) ==
  {l.id : l \in {l \in Range(vertex["role"]) :
                   /\ LiveAt(l, t)
                   /\ l.data.roletype = "leadlink"
                   /\ circle \in {p.id : p \in LiveParents(l.id, t)}}}
Fillers(l, t) ==
  {e.x : e \in {e \in Range(edge["rolemember"]) : e.y = l /\ LiveAt(e, t)}}

\* C34: a member counts as the lead link of a circle exactly when the one
\* lead link child of the circle has one filler and that filler is the
\* member; with two fillers or more, or without a lead link child, no member
\* counts, in whatever order the store returns its rows.
C34_LeadLinkOnlyWhenAlone ==
  Committed =>
    \A t \in Timelines, ord \in Orders :
      \A m \in {m \in Range(vertex["member"]) : LiveAt(m, t)},
         c \in {r \in Range(vertex["role"]) : LiveAt(r, t)} :
        memberIsLeadLink(Store, t, m.id, c.id, ord)
          <=> \E l \in LeadLinksOf(c.id, t) :
                /\ LeadLinksOf(c.id, t) = {l}
                /\ Fillers(l, t) = {m.id}

(***************************************************************************)
(* The password table.                                                     *)
(***************************************************************************)
\* The rows of the password table for member m.
PasswordRows(rows, m) == SelectSeq(rows, LAMBDA r : r.memberid = m)

\* This step applies an event of a group and of type t.
Applies(t) ==
  /\ nevents' = nevents + 1
  /\ last'.groupID # <<>>
  /\ last'.type = t

\* C35: after MemberPasswordSet the password table holds one row for the
\* member, with the hash of that event, and the rows of the other members as
\* they were; MemberPassword, which takes no timeline, reads that hash;
\* authentication of the member succeeds with the passwords of that hash and
\* with no other; and no other event of the stream changes the table.
C35_LatestPassword ==
  [][/\ Applies("MemberPasswordSet") =>
          LET m == last'.aggregateID IN
          /\ err' = "ok"
          /\ PasswordRows(password', m) = <<[memberid |-> m, password |-> last'.text]>>
          /\ \A o \in KnownMembers \ {m} : PasswordRows(password', o) = PasswordRows(password, o)
          /\ MemberPassword(Store', m) = [err |-> "ok", password |-> last'.text]
          /\ \A p \in Passwords, ord \in Orders :
               AuthenticateUIDPassword(Store', m, p, ord).err = "ok" <=> Hash(p) = last'.text
     /\ ~Applies("MemberPasswordSet") => password' = password]_vars

\* The password of m1 has been set in two groups and the table holds the one
\* row of the second.
C35_Witness ==
  /\ err = "ok"
  /\ last.type = "MemberPasswordSet"
  /\ last.aggregateID = "m1"
  /\ nevents = 3
  /\ KnownMembers = {"m1"}
  /\ Cardinality(timeline) = 3
  /\ password = <<[memberid |-> "m1", password |-> "h2"]>>

(***************************************************************************)
(* A reader thread on the instance that applies events.  ApplyEvent is     *)
(* taken statement by statement around its write of the cached timeline,   *)
(* and a query from CurTimeLine to timeLineCond.                           *)
(***************************************************************************)
\* ApplyEvent is called with a RoleUpdated event; it inserts the timeline row
\* of a new group.
WriterInsert ==
  /\ err = "ok"
  /\ threads.writer = "idle"
  /\ nevents < MaxSteps
  /\ \E gs \in GroupStamps({curTl + Gap}), r \in KnownRoles :
       LET rows == SelectSeq(vertex["role"], LAMBDA v : v.id = r)
           e == [Event(gs, "RoleUpdated") EXCEPT
                   !.id = nevents + 1, !.roleID = r,
                   !.roleType = rows[1].data.roletype, !.text = "n2"]
       IN /\ timeline' = withTimeLine(Store, e).timeline
          /\ last' = e
  /\ nevents' = nevents + 1
  /\ pc' = "loop"
  /\ threads' = [threads EXCEPT !.writer = "lock"]
  /\ UNCHANGED <<vertex, edge, roleevent, password, curTl, resolution, err, snap, txBegin>>

\* s.curTlLock.Lock() of ApplyEvent.
WriterLock ==
  /\ threads.writer = "lock"
  /\ threads.lock = ""
  /\ threads' = [threads EXCEPT !.writer = "write", !.lock = "writer"]
  /\ UNCHANGED <<timeline, vertex, edge, roleevent, password, curTl, resolution, err,
                 last, nevents, pc, snap, txBegin>>

\* s.curTl, err = s.curTimeLineFromDB()
WriterWrite ==
  /\ threads.writer = "write"
  /\ curTl' = curTimeLineFromDB(Store)
  /\ threads' = [threads EXCEPT !.writer = "unlock"]
  /\ UNCHANGED <<timeline, vertex, edge, roleevent, password, resolution, err,
                 last, nevents, pc, snap, txBegin>>

\* s.curTlLock.Unlock() of ApplyEvent.
WriterUnlock ==
  /\ threads.writer = "unlock"
  /\ threads' = [threads EXCEPT !.writer = "passes", !.lock = ""]
  /\ UNCHANGED <<timeline, vertex, edge, roleevent, password, curTl, resolution, err,
                 last, nevents, pc, snap, txBegin>>

\* The two switches of ApplyEvent.
WriterPasses ==
  /\ threads.writer = "passes"
  /\ \E ord \in Orders : Becomes(applyInGroup(Store, last, ord))
  /\ snap' = [t \in (DOMAIN snap) \ {EventTimeLine(Store, last)} |-> snap[t]]
  /\ threads' = [threads EXCEPT !.writer = "idle"]
  /\ UNCHANGED <<resolution, last, nevents, pc, txBegin>>

\* s.curTlLock.Lock() of CurTimeLine, called by a query of the reader.
ReaderLock ==
  /\ threads.reader = "idle"
  /\ threads.lock = ""
  /\ threads' = [threads EXCEPT !.reader = "copy", !.lock = "reader"]
  /\ UNCHANGED <<timeline, vertex, edge, roleevent, password, curTl, resolution, err,
                 last, nevents, pc, snap, txBegin>>

\* c := *s.curTl
ReaderCopy ==
  /\ threads.reader = "copy"
  /\ threads' = [threads EXCEPT !.reader = "unlock", !.tl = curTl]
  /\ UNCHANGED <<timeline, vertex, edge, roleevent, password, curTl, resolution, err,
                 last, nevents, pc, snap, txBegin>>

\* The deferred s.curTlLock.Unlock() of CurTimeLine.
ReaderUnlock ==
  /\ threads.reader = "unlock"
  /\ threads' = [threads EXCEPT !.reader = "cond", !.lock = ""]
  /\ UNCHANGED <<timeline, vertex, edge, roleevent, password, curTl, resolution, err,
                 last, nevents, pc, snap, txBegin>>

\* tl == s.curTl.Number() of timeLineCond, on the way to the query.
ReaderCond ==
  /\ threads.reader = "cond"
  /\ threads' = [threads EXCEPT !.reader = "idle", !.cached = curTl]
  /\ UNCHANGED <<timeline, vertex, edge, roleevent, password, curTl, resolution, err,
                 last, nevents, pc, snap, txBegin>>

NextThreads ==
  \/ WriterInsert
  \/ WriterLock
  \/ WriterWrite
  \/ WriterUnlock
  \/ WriterPasses
  \/ ReaderLock
  \/ ReaderCopy
  \/ ReaderUnlock
  \/ ReaderCond
  \/ (threads.writer = "idle" /\ ApplyEventsReturn)

SpecThreads == InitSetUp /\ [][NextThreads]_vars

\* The next statement of the thread reads or writes the cached timeline.
AtCache(thread) ==
  \/ thread = "writer" /\ threads.writer = "write"
  \/ thread = "reader" /\ threads.reader \in {"copy", "cond"}

\* C36: with a reader running queries while ApplyEvent runs on the same
\* instance, a thread that is about to read or write the cached current
\* timeline holds the mutex of the instance, and the value timeLineCond
\* compares with is the one the query took from CurTimeLine.
C36_CacheUnderMutex ==
  /\ \A thread \in {"writer", "reader"} : AtCache(thread) => threads.lock = thread
  /\ threads.reader = "idle" => threads.cached = threads.tl

(***************************************************************************)
(* A role that loses its parent.                                           *)
(***************************************************************************)
\* C37: RoleChangedParent with no new parent, on a role that has one version
\* and one parent, is applied without failure: the edge from the old parent
\* ends at tl - 1, no edge to the role is live at tl, the depth of the role is
\* 0 and every role below it has the depth of its parent plus one.
C37_MoveToNoParent ==
  [][(/\ Applies("RoleChangedParent")
      /\ last'.parentRoleID = <<>>
      /\ Len(LiveVersions(Store, last'.roleID, EventTimeLine(Store, last'))) = 1
      /\ Len(ParentEdges(Store, last'.roleID, EventTimeLine(Store, last') - 1)) = 1
      /\ \A r \in Range(vertex["role"]) \cup Range(edge["rolerole"]) :
           r.start_tl < EventTimeLine(Store, last'))
     => LET B == last'.roleID
            tl == EventTimeLine(Store, last')
        IN /\ err' = "ok"
           /\ ParentEdges(Store', B, tl) = <<>>
           /\ Len(ParentEdges(Store', B, tl - 1)) = 1
           /\ Depths(Store', B, tl) = {0}
           /\ \A X \in Subtree(Store', B, tl) \ {B} :
                \A P \in ParentIDs(Store', X, tl) :
                  Depths(Store', X, tl) = {d + 1 : d \in Depths(Store', P, tl)}]_vars

(***************************************************************************)
(* The life of a tension.                                                  *)
(***************************************************************************)
TensionUpdated(k) ==
  \E gs \in GroupStamps(k.stamps), t \in KnownTensions :
    Apply([Event(gs, "TensionUpdated") EXCEPT !.aggregateID = t, !.text = "n2"],
          "fwd", k.max)

TensionRoleChanged(k) ==
  \E gs \in GroupStamps(k.stamps), t \in KnownTensions :
    Apply([Event(gs, "TensionRoleChanged") EXCEPT
             !.aggregateID = t, !.prevRoleID = <<"r2">>, !.parentRoleID = <<"r1">>],
          "fwd", k.max)

NextTensionLife ==
  \/ TensionCreated(InOrder(MaxSteps))
  \/ TensionUpdated(InOrder(MaxSteps))
  \/ TensionRoleChanged(InOrder(MaxSteps))
  \/ TensionClosed(InOrder(MaxSteps))
  \/ ApplyEventsReturn

SpecTensionLife == InitCircle /\ [][NextTensionLife]_vars

\* The data of the versions of tension id that are live at t in store st.
TensionVersions(st, id, t) ==
  {v.data : v \in {v \in Range(st.vertex["tension"]) : v.id = id /\ LiveAt(v, t)}}

\* This step is the first write of its group on the tension of its event.
FirstTouch ==
  \A v \in Range(vertex["tension"]) :
    v.id = last'.aggregateID => v.start_tl < EventTimeLine(Store, last')

\* C38: TensionClosed leaves the live version of the tension closed, with the
\* reason of the event, and a TensionUpdated or TensionRoleChanged applied to
\* a closed tension leaves its live version closed with the reason it had.
C38_ClosedStaysClosed ==
  [][/\ (Applies("TensionClosed") /\ FirstTouch /\ err' = "ok") =>
          \E d \in TensionVersions(Store', last'.aggregateID, curTl') :
            /\ TensionVersions(Store', last'.aggregateID, curTl') = {d}
            /\ d.closed
            /\ d.closereason = last'.text
     /\ (/\ Applies("TensionUpdated") \/ Applies("TensionRoleChanged")
         /\ FirstTouch
         /\ err' = "ok"
         /\ \E d \in TensionVersions(Store, last'.aggregateID, curTl) :
              TensionVersions(Store, last'.aggregateID, curTl) = {d} /\ d.closed) =>
          \E d \in TensionVersions(Store', last'.aggregateID, curTl') :
            /\ TensionVersions(Store', last'.aggregateID, curTl') = {d}
            /\ d.closed
            /\ {d.closereason} =
                 {c.closereason : c \in TensionVersions(Store, last'.aggregateID, curTl)}]_vars


(***************************************************************************)
(* The calling member and the forced admin user name.                      *)
(***************************************************************************)
\* The user names an event may carry: the member's own or the empty string.
UserNames(id) == {"", UserNameOf(id)}

MemberUpdated(k) ==
  \E gs \in GroupStamps(k.stamps), m \in KnownMembers, a \in BOOLEAN :
    \E u \in UserNames(m) :
      Apply([Event(gs, "MemberUpdated") EXCEPT
               !.aggregateID = m, !.isAdmin = a, !.text = u, !.email = EmailOf(m)],
            "fwd", k.max)

NextCalling ==
  \/ MemberCreated(InOrder(MaxSteps))
  \/ MemberUpdated(InOrder(MaxSteps))
  \/ ApplyEventsReturn

SpecCalling == Init /\ [][NextCalling]_vars

\* The stored versions of member id that are live at the current timeline.
StoredMembers(id) == {s \in Range(vertex["member"]) : s.id = id /\ LiveAt(s, curTl)}

\* C39: CallingMember returns is_admin = true only if the stored member is an
\* admin or a forced admin user name has been configured and equals the
\* member's user name; when none has been configured (the field keeps its zero
\* value, the empty string) every member is returned with its stored is_admin
\* flag; the returned record is the stored one with at most that flag changed.
\* Stated for members with one live version.
C39_ForcedAdminOnly ==
  Committed =>
    \A forced \in ForcedAdmins, userid \in KnownMembers, ord \in Orders :
      LET r == CallingMemberInternal(Store, curTl, userid, forced, ord) IN
      (r.err = "ok" /\ Cardinality(StoredMembers(userid)) = 1) =>
        \E s \in StoredMembers(userid) :
          /\ [r.member[1] EXCEPT !.data.isadmin = s.data.isadmin] = s
          /\ r.member[1].data.isadmin =>
               s.data.isadmin \/ (forced # "" /\ forced = s.data.username)
          /\ forced = "" => r.member[1].data.isadmin = s.data.isadmin


(***************************************************************************)
(* The fast path of the timeline predicates.                               *)
(***************************************************************************)
\* Every row of the versioned tables.
VersionedRows ==
  UNION ({Range(vertex[vc]) : vc \in DOMAIN vertex} \cup {Range(edge[ec]) : ec \in DOMAIN edge})

\* C40: in every state reached by applying event groups, at the cached current
\* timeline the fast path of timeLineCond (end_tl is null) selects exactly the
\* rows with start_tl <= tl and end_tl null or >= tl, and the fast path of
\* lastTimeLineCond selects exactly the rows with end_tl null and
\* start_tl <= tl.
C40_FastPathEquivalent ==
  \A r \in VersionedRows :
    /\ timeLineCond(Store, r, curTl) <=> LiveAt(r, curTl)
    /\ lastTimeLineCond(Store, r, curTl) <=> (r.end_tl = <<>> /\ r.start_tl <= curTl)

\* A group older than the current timeline was applied last; the tables hold
\* a closed row and an open row older than the current timeline.
C40_Witness ==
  /\ Committed
  /\ last.groupID # <<>>
  /\ EventTimeLine(Store, last) < curTl
  /\ \E r \in VersionedRows : r.end_tl # <<>>
  /\ \E r \in VersionedRows : r.end_tl = <<>> /\ r.start_tl < curTl

====
